---- MODULE Spec2Model ----
(***************************************************************************)
(* Recipe-draft lifecycle and idempotency mechanism of foodieai            *)
(* (src/src/recipes/recipe-drafts.service.ts) over a relational store.     *)
(*                                                                         *)
(* The store is PostgreSQL reached through Prisma; the service opens its   *)
(* interactive transactions with no isolation level, so they run at the    *)
(* store's default, READ COMMITTED: every statement reads the rows         *)
(* committed so far plus the transaction's own writes, a write waits for   *)
(* an uncommitted write of another transaction to the same row or to the   *)
(* same unique-index entry, and a commit publishes all writes at once.     *)
(* Each statement of a handler is one step of the calling process.         *)
(***************************************************************************)
EXTENDS Integers, Sequences, FiniteSets, TLC

\* ------------------------------------------------------------------ bounds
MaxCalls == 3          \* calls started in one behaviour (also the id supply)
MaxDrafts == 2         \* RecipeDraft rows that can exist

Procs == {"p1", "p2"}  \* concurrent callers

\* ------------------------------------------------------------- null values
NULLN == -1            \* SQL NULL / undefined of a numeric column
NULLS == "<null>"      \* SQL NULL / undefined of a text column
NoRow == [exists |-> FALSE]

\* ----------------------------------------------------------- input domains
KeyInputs == {NULLS, "k1"}
DraftIds == 1..MaxDrafts
UnknownId == 99        \* an ingredient id no row has

MacrosA == [kcal100 |-> 100, protein100 |-> 10, fat100 |-> 4, carbs100 |-> 12]
NoMacros == [kcal100 |-> NULLN, protein100 |-> NULLN, fat100 |-> NULLN, carbs100 |-> NULLN]

\* Product table (read only here): one catalog product.
Products == {[id |-> "prod1", kcal100 |-> 50, protein100 |-> 6, fat100 |-> 2, carbs100 |-> 8]}

\* ingredient payloads of addIngredient: a complete snapshot ingredient with no
\* order, an ingredient linked to a product for order 1, and one with neither macros
\* nor product (and a unit outside the table) with no order
IngInputs ==
  { [amount |-> 200, unit |-> "G", productId |-> NULLS, macros |-> MacrosA, order |-> NULLN],
    [amount |-> 2, unit |-> "kg", productId |-> "prod1", macros |-> NoMacros, order |-> 1],
    [amount |-> NULLN, unit |-> "pcs", productId |-> NULLS, macros |-> NoMacros,
     order |-> NULLN] }
StepInputs == { <<>>, <<"mix">> }
\* bodies of create-draft; a title is a sequence of characters
DraftInputs ==
  { [title |-> <<"T">>, category |-> "soup", description |-> "d", servings |-> 2],
    [title |-> <<" ">>, category |-> NULLS, description |-> NULLS, servings |-> NULLN] }

SNAPSHOT_WARNING == "warning"

\* --------------------------------------------------------------- variables
VARIABLES
  draft,      \* RecipeDraft table: DraftIds -> row or NoRow
  ings,       \* RecipeDraftIngredient table (committed rows)
  steps,      \* RecipeDraftStep table (committed rows)
  idem,       \* IdempotencyKey table (committed rows)
  recipes,    \* Recipe table (committed rows, with their ingredients and steps)
  proc,       \* per caller: position in the handler, arguments, locals, open transaction
  last,       \* the call that returned or raised most recently and its outcome,
              \* until the next call starts
  ncalls,     \* calls started so far; the call number is the source of fresh row ids
  createKey,  \* history: the clientRequestId each draft's create call carried,
              \* NULLS for an absent draft
  mcp,        \* the MCP router: the request in hand, its response, the handlers it
              \* ran, the User rows and the process environment
  calc,       \* a pure function under test: its inputs and, once applied, its result
  usr,        \* UsersService: the UserProfile rows and each caller's position
  shop,       \* product.createManual: the Product rows, the recentCreates cache, the clock
  oauth,      \* OauthService: the access tokens, the User rows, the clock
  toolArgs    \* history: per caller, the arguments its tool call was made with

vars ==
  <<draft, ings, steps, idem, recipes, proc, last, ncalls, createKey, mcp, calc, usr, shop,
    oauth, toolArgs>>

\* ------------------------------------------------------------ pure helpers
Truthy(k) == k /= NULLS /\ k /= ""

\* String.prototype.toLowerCase on the unit strings that occur
ToLower(u) == CASE u = "G" -> "g" [] u = "KG" -> "kg" [] OTHER -> u

\* the value NaN; no number that is drawn or computed comes near it
NaN == -999999
\* a * b, a + b and a / d in arithmetic with NaN
Times(a, b) == IF a = NaN \/ b = NaN THEN NaN ELSE a * b
Plus(a, b) == IF a = NaN \/ b = NaN THEN NaN ELSE a + b
Over(a, d) == IF a = NaN THEN NaN ELSE a \div d

\* unitToGram[...] ; 0 stands for "not in the table" (undefined, falsy). The table
\* is an object literal, so a key that names a member it inherits from
\* Object.prototype finds that function or object: a truthy factor whose product
\* with a number is NaN, which is what stands for it here.
UnitToGram(u) ==
  CASE u = "g" -> 1 [] u = "gram" -> 1 [] u = "grams" -> 1
    [] u = "kg" -> 1000 [] u = "ml" -> 1 [] u = "l" -> 1000
    [] u \in {"constructor", "__proto__"} -> NaN
    [] OTHER -> 0

\* a ?? b
Coalesce(a, b) == IF a /= NULLN THEN a ELSE b

\* ing.product?.x of a row read without its product, or with no product linked
NoProduct == [id |-> NULLS, kcal100 |-> NULLN, protein100 |-> NULLN, fat100 |-> NULLN, carbs100 |-> NULLN]

\* the product a relation query joins to an ingredient row (include: {product: true})
ProductOf(pid) ==
  IF \E pr \in Products : pr.id = pid
    THEN CHOOSE pr \in Products : pr.id = pid
    ELSE NoProduct

WithProduct(row) ==
  [id |-> row.id, draftId |-> row.draftId, order |-> row.order, amount |-> row.amount,
   unit |-> row.unit, productId |-> row.productId, kcal100 |-> row.kcal100,
   protein100 |-> row.protein100, fat100 |-> row.fat100, carbs100 |-> row.carbs100,
   product |-> ProductOf(row.productId)]
WithoutProduct(row) ==
  [id |-> row.id, draftId |-> row.draftId, order |-> row.order, amount |-> row.amount,
   unit |-> row.unit, productId |-> row.productId, kcal100 |-> row.kcal100,
   protein100 |-> row.protein100, fat100 |-> row.fat100, carbs100 |-> row.carbs100,
   product |-> NoProduct]

\* sequence of the rows of a set, ascending by order, ties by creating call
RECURSIVE SortByOrder(_)
SortByOrder(S) ==
  IF S = {} THEN <<>>
  ELSE LET m == CHOOSE x \in S : \A y \in S :
                  x.order < y.order \/ (x.order = y.order /\ x.id <= y.id)
       IN <<m>> \o SortByOrder(S \ {m})

RECURSIVE SumSeq(_)
SumSeq(s) == IF s = <<>> THEN 0 ELSE Plus(Head(s), SumSeq(Tail(s)))

Zero4 == [calories |-> 0, protein |-> 0, fat |-> 0, carbs |-> 0]
NoNutrition == [calories |-> NULLN, protein |-> NULLN, fat |-> NULLN, carbs |-> NULLN]

\* contribution of one ingredient (with its joined product) to the totals
Contribution(ing) ==
  IF ing.amount = NULLN \/ ing.unit = NULLS THEN Zero4
  ELSE LET factor == UnitToGram(ToLower(ing.unit)) IN
    IF factor = 0 THEN Zero4
    ELSE LET grams == Times(ing.amount, factor)
             pr == ing.product
             kcal100 == Coalesce(ing.kcal100, pr.kcal100)
             protein100 == Coalesce(ing.protein100, pr.protein100)
             fat100 == Coalesce(ing.fat100, pr.fat100)
             carbs100 == Coalesce(ing.carbs100, pr.carbs100)
         IN IF kcal100 = NULLN \/ protein100 = NULLN \/ fat100 = NULLN \/ carbs100 = NULLN
              THEN Zero4
              ELSE [calories |-> Over(Times(grams, kcal100), 100),
                    protein |-> Over(Times(grams, protein100), 100),
                    fat |-> Over(Times(grams, fat100), 100),
                    carbs |-> Over(Times(grams, carbs100), 100)]

\* RecipeDraftsService.calculateNutritionTotals; the input domains keep every
\* quotient exact
calculateNutritionTotals(ingSeq, servings) ==
  LET c == [i \in 1..Len(ingSeq) |-> Contribution(ingSeq[i])]
      total == [calories |-> SumSeq([i \in 1..Len(c) |-> c[i].calories]),
                protein |-> SumSeq([i \in 1..Len(c) |-> c[i].protein]),
                fat |-> SumSeq([i \in 1..Len(c) |-> c[i].fat]),
                carbs |-> SumSeq([i \in 1..Len(c) |-> c[i].carbs])]
      safeServings == IF servings /= NULLN /\ servings > 0 THEN servings ELSE 1
  IN [total |-> total,
      perServing |-> [calories |-> Over(total.calories, safeServings),
                      protein |-> Over(total.protein, safeServings),
                      fat |-> Over(total.fat, safeServings),
                      carbs |-> Over(total.carbs, safeServings)]]

\* title.trim().length === 0 ; a title is a sequence of characters
IsBlank(title) == \A i \in 1..Len(title) : title[i] = " "

\* a validation that accepts the draft as soon as one ingredient is complete
evaluateDraftAnyComplete(d) ==
  LET missingFields ==
        (IF IsBlank(d.head.title) THEN <<"title">> ELSE <<>>)
        \o (IF Len(d.ingredients) = 0 THEN <<"ingredients">> ELSE <<>>)
        \o (IF Len(d.steps) = 0 THEN <<"steps">> ELSE <<>>)
      incomplete(g) == g.productId = NULLS
                       /\ ~(g.kcal100 /= NULLN /\ g.protein100 /= NULLN
                            /\ g.fat100 /= NULLN /\ g.carbs100 /= NULLN)
      missingIngredients ==
        SelectSeq([i \in 1..Len(d.ingredients) |-> d.ingredients[i].id],
                  LAMBDA id : \E i \in 1..Len(d.ingredients) :
                     d.ingredients[i].id = id /\ incomplete(d.ingredients[i]))
  IN [isValid |-> Len(missingFields) = 0
                  /\ Len(missingIngredients) < Len(d.ingredients),
      missingFields |-> missingFields,
      missingIngredients |-> missingIngredients]

\* a validation that reports the incomplete ingredients but accepts the draft
evaluateDraftFieldsOnly(d) ==
  LET missingFields ==
        (IF IsBlank(d.head.title) THEN <<"title">> ELSE <<>>)
        \o (IF Len(d.ingredients) = 0 THEN <<"ingredients">> ELSE <<>>)
        \o (IF Len(d.steps) = 0 THEN <<"steps">> ELSE <<>>)
      incomplete(g) == g.productId = NULLS
                       /\ ~(g.kcal100 /= NULLN /\ g.protein100 /= NULLN
                            /\ g.fat100 /= NULLN /\ g.carbs100 /= NULLN)
      missingIngredients ==
        SelectSeq([i \in 1..Len(d.ingredients) |-> d.ingredients[i].id],
                  LAMBDA id : \E i \in 1..Len(d.ingredients) :
                     d.ingredients[i].id = id /\ incomplete(d.ingredients[i]))
  IN [isValid |-> Len(missingFields) = 0,
      missingFields |-> missingFields,
      missingIngredients |-> missingIngredients]

\* RecipeDraftsService.evaluateDraft on a draft with its relations
evaluateDraft(d) ==
  LET missingFields ==
        (IF IsBlank(d.head.title) THEN <<"title">> ELSE <<>>)
        \o (IF Len(d.ingredients) = 0 THEN <<"ingredients">> ELSE <<>>)
        \o (IF Len(d.steps) = 0 THEN <<"steps">> ELSE <<>>)
      hasMacros(g) == g.kcal100 /= NULLN /\ g.protein100 /= NULLN
                      /\ g.fat100 /= NULLN /\ g.carbs100 /= NULLN
      incomplete(g) == g.productId = NULLS /\ ~hasMacros(g)
      missingIngredients ==
        SelectSeq([i \in 1..Len(d.ingredients) |-> d.ingredients[i].id],
                  LAMBDA id : \E i \in 1..Len(d.ingredients) :
                     d.ingredients[i].id = id /\ incomplete(d.ingredients[i]))
  IN [isValid |-> Len(missingFields) = 0 /\ Len(missingIngredients) = 0,
      missingFields |-> missingFields,
      missingIngredients |-> missingIngredients]

\* buildPublishedDescription; "a+b" stands for a, a blank line, b
buildPublishedDescription(description, hasSnapshotIngredient) ==
  IF ~hasSnapshotIngredient THEN description
  ELSE IF description = NULLS \/ description = "" THEN SNAPSHOT_WARNING
  ELSE IF description = "d" THEN "d+warning"
  ELSE description

\* ============================================================ the MCP router
\* McpController (src/unnamed/part_007) and McpService.executeTool
\* (src/src/mcp/mcp.service.ts).  A payload is any parsed JSON value; a value is
\* tagged with what typeof and Array.isArray say of it.
JsStr(s) == [t |-> "string", s |-> s, n |-> 0]
JsNum(n) == [t |-> "number", s |-> "", n |-> n]
JsNull == [t |-> "null", s |-> "", n |-> 0]
JsUndefined == [t |-> "undefined", s |-> "", n |-> 0]
JsBool == [t |-> "boolean", s |-> "true", n |-> 0]

\* params.arguments: its type, and whether it passes the tool's inputSchema and DTO
ArgInputs ==
  { [t |-> "object", valid |-> TRUE], [t |-> "object", valid |-> FALSE],
    [t |-> "array", valid |-> FALSE], [t |-> "undefined", valid |-> FALSE] }
NoArguments == [t |-> "undefined", valid |-> FALSE]

NoParams == [t |-> "undefined", name |-> JsUndefined, arguments |-> NoArguments]
ParamsOf(name, arguments) == [t |-> "object", name |-> name, arguments |-> arguments]
ParamInputs ==
  { NoParams,
    [NoParams EXCEPT !.t = "null"],
    ParamsOf(JsNum(5), [t |-> "object", valid |-> TRUE]),
    ParamsOf(JsStr("nope"), [t |-> "object", valid |-> TRUE]),
    ParamsOf(JsStr("user.me"), [t |-> "object", valid |-> TRUE]),
    ParamsOf(JsStr("user.me"), [t |-> "array", valid |-> FALSE]),
    ParamsOf(JsStr("recipe.createDraft"), [t |-> "object", valid |-> TRUE]),
    ParamsOf(JsStr("product.search"), [t |-> "object", valid |-> TRUE]),
    ParamsOf(JsStr("product.search"), [t |-> "object", valid |-> FALSE]),
    ParamsOf(JsStr("product.search"), NoArguments) }

IdInputs == { JsStr("a"), JsNum(7), JsNull, JsBool, JsUndefined }
JsonrpcInputs == { JsStr("2.0"), JsStr("1.0"), JsUndefined }
KnownMethods == {"initialize", "tools/list", "resources/list", "prompts/list", "tools/call"}
MethodInputs == {JsStr(m) : m \in KnownMethods} \cup { JsStr("ping"), JsNum(1) }

\* a payload that is not an object literal: reading a member of an array gives undefined
NonObject(t) ==
  [t |-> t, jsonrpc |-> JsUndefined, method |-> JsUndefined, id |-> JsUndefined,
   params |-> NoParams]
BodyInputs ==
  { NonObject(t) : t \in {"string", "null", "array"} } \cup
  [t : {"object"}, jsonrpc : JsonrpcInputs, method : MethodInputs, id : IdInputs,
   params : ParamInputs]

\* the authorization header: absent, or a string that may start with "Bearer "
\* followed by a token ("good" is a token the OAuth service knows)
NoAuthorization == [present |-> FALSE, bearer |-> FALSE, token |-> ""]
HeaderInputs ==
  { NoAuthorization,
    [present |-> TRUE, bearer |-> FALSE, token |-> ""],
    [present |-> TRUE, bearer |-> TRUE, token |-> ""],
    [present |-> TRUE, bearer |-> TRUE, token |-> "bad"],
    [present |-> TRUE, bearer |-> TRUE, token |-> "good"] }

\* req.user, set by a guard in front of the controller if there is one
UserInputs == { [userId |-> NULLS], [userId |-> "u-req"] }

\* what the collaborators do during one call: the tool's handler returns, raises a
\* handled error or fails unexpectedly; the user store answers or fails
EnvInputs == [handler : {"ok", "handled", "incomplete", "crash"}, store : {"ok", "crash"}]
\* process.env.DEV_AUTH_BYPASS_SUB, fixed when the process starts
DevSubInputs == { NULLS, "dev-sub" }

\* ----------------------------------------------------- exceptions as values
NoExc == [class |-> "none", code |-> 0, message |-> ""]
McpHandledError(code, message) ==
  [class |-> "McpHandledError", code |-> code, message |-> message]
UnauthorizedException(message) ==
  [class |-> "UnauthorizedException", code |-> 0, message |-> message]
UnexpectedError == [class |-> "Error", code |-> 0, message |-> "unexpected"]

\* the outcome of a call: a value, or an exception on its way up; created holds
\* the external ids whose User row the call inserted, invoked the handlers it ran
Gives(val, created, invoked) ==
  [thrown |-> FALSE, exc |-> NoExc, val |-> val, created |-> created, invoked |-> invoked]
Raises(exc, created, invoked) ==
  [thrown |-> TRUE, exc |-> exc, val |-> NULLS, created |-> created, invoked |-> invoked]

\* ------------------------------------------------------------ the tool registry
ToolNames == {"product.search", "user.me", "recipeDraft.create"}
NoTool == [name |-> NULLS, auth |-> "none"]
toolRegistry ==
  [n \in ToolNames |->
     [name |-> n, auth |-> IF n = "product.search" THEN "none" ELSE "required"]]
toolAliases(name) == IF name = "recipe.createDraft" THEN "recipeDraft.create" ELSE name
resolveToolName(name) ==
  LET canonical == toolAliases(name)
  IN IF canonical \in ToolNames THEN canonical ELSE NULLS
getToolDefinition(name) ==
  LET resolved == resolveToolName(name)
  IN IF Truthy(resolved) THEN toolRegistry[resolved] ELSE NoTool
listTools == { toolRegistry[n].name : n \in ToolNames }

\* ---------------------------------------------------------------- executeTool
isPlainObject(value) == value.t = "object"

\* ensureAuth: the exception it raises, NoExc when it passes
ensureAuthAlwaysPasses(tool, context) == NoExc
ensureAuth(tool, context) ==
  IF tool.auth = "required" /\ ~Truthy(context.userId)
    THEN McpHandledError(401, "AUTH_REQUIRED")
    ELSE NoExc

\* validateInput and validateDtoIfPresent: the exception they raise
validateInput(tool, args) ==
  IF ~isPlainObject(args) \/ ~args.valid
    THEN McpHandledError(-32000, "VALIDATION_ERROR")
    ELSE NoExc

\* tool.handler(normalizedArgs, context), as the collaborators make it end
Handler(tool, context, env) ==
  LET run == {[tool |-> tool.name, userId |-> context.userId]}
  IN CASE env.handler = "ok" -> Gives(tool.name, {}, run)
       [] env.handler = "handled" -> Raises(McpHandledError(404, "NOT_FOUND"), {}, run)
       [] env.handler = "incomplete" ->
            Raises(McpHandledError(-32000, "DRAFT_INCOMPLETE"), {}, run)
       [] OTHER -> Raises(UnexpectedError, {}, run)

executeTool(name, rawArgs, context, env) ==
  LET resolvedName == resolveToolName(name)
      tool == IF Truthy(resolvedName) THEN toolRegistry[resolvedName] ELSE NoTool
  IN IF ~Truthy(resolvedName) THEN Raises(McpHandledError(-32601, "NOT_FOUND"), {}, {})
     ELSE IF ensureAuth(tool, context) /= NoExc
       THEN Raises(ensureAuth(tool, context), {}, {})
     ELSE IF validateInput(tool, rawArgs) /= NoExc
       THEN Raises(validateInput(tool, rawArgs), {}, {})
     ELSE Handler(tool, context, env)

\* --------------------------------------------------------- resolving the user
UserIdOf(externalId) ==
  CASE externalId = "sub-good" -> "u-good"
    [] externalId = "dev-sub" -> "u-devsub"
    [] OTHER -> "u-dev"

\* UsersService.getOrCreateByExternalId: find the row or insert it
usersGetOrCreate(users, externalId, env) ==
  IF env.store = "crash" THEN Raises(UnexpectedError, {}, {})
  ELSE Gives(UserIdOf(externalId), {externalId} \ users, {})

\* AuthContextService.extractBearerToken and resolveSubject
extractBearerToken(headers, devSub) ==
  IF ~headers.present /\ Truthy(devSub) THEN Gives("", {}, {})
  ELSE IF ~headers.present \/ ~headers.bearer
    THEN Raises(UnauthorizedException("Missing Bearer token"), {}, {})
  ELSE IF headers.token = "" THEN Raises(UnauthorizedException("Missing Bearer token"), {}, {})
  ELSE Gives(headers.token, {}, {})
resolveSubject(token, devSub) ==
  IF token = "" /\ Truthy(devSub) THEN Gives(devSub, {}, {})
  ELSE IF token = "good" THEN Gives("sub-good", {}, {})
  ELSE IF Truthy(devSub) THEN Gives(devSub, {}, {})
  ELSE Raises(UnauthorizedException("Invalid access token"), {}, {})
getOrCreateUserId(users, headers, devSub, env) ==
  LET token == extractBearerToken(headers, devSub)
      subject == resolveSubject(token.val, devSub)
  IN IF token.thrown THEN token
     ELSE IF subject.thrown THEN subject
     ELSE usersGetOrCreate(users, subject.val, env)

\* AuthContextService.getOrCreateByExternalId, as the collaborator is specified:
\* the user id of an external identity, the user record created on first sight
getOrCreateByExternalId(users, externalId, env) == usersGetOrCreate(users, externalId, env)

resolveUserId(users, headers, devSub, env) ==
  IF headers.present /\ headers.bearer
    THEN getOrCreateUserId(users, headers, devSub, env)
    ELSE getOrCreateByExternalId(users, IF Truthy(devSub) THEN devSub ELSE "dev-user", env)

\* ------------------------------------------------------------- the envelopes
isObject(value) == value.t \in {"object", "array"}

isValidRequestAnyMethod(body) == isObject(body) /\ body.jsonrpc = JsStr("2.0")
isValidRequest(body) ==
  /\ isObject(body)
  /\ body.jsonrpc = JsStr("2.0")
  /\ body.method.t = "string"

extractIdEchoesAnything(body) == body.id
extractId(body) ==
  IF ~isObject(body) THEN JsNull
  ELSE IF body.id.t \in {"string", "number", "null"} THEN body.id
  ELSE JsNull

\* a response: `member` is "error" or "result"; a result names what it carries
NoResponse ==
  [jsonrpc |-> "none", id |-> JsNull, member |-> "none", code |-> 0, message |-> "",
   carries |-> "none", items |-> {}, isError |-> FALSE]
error(id, code, message) ==
  [NoResponse EXCEPT !.jsonrpc = "2.0", !.id = id, !.member = "error", !.code = code,
                     !.message = message]
ResultOfMethod(id, carries, items) ==
  [NoResponse EXCEPT !.jsonrpc = "2.0", !.id = id, !.member = "result",
                     !.carries = carries, !.items = items]
\* { jsonrpc, id, result: buildMcpResult(...) } and { ..., result: buildMcpErrorResult(...) }
buildMcpResult(id, tool) ==
  [NoResponse EXCEPT !.jsonrpc = "2.0", !.id = id, !.member = "result",
                     !.carries = "content", !.items = {tool}]
buildMcpErrorResult(id, message, code) ==
  [NoResponse EXCEPT !.jsonrpc = "2.0", !.id = id, !.member = "result",
                     !.carries = "content", !.isError = TRUE, !.code = code,
                     !.message = message]

handleToolErrorAsRpcError(id, exc) ==
  CASE exc.class = "McpHandledError" -> error(id, exc.code, exc.message)
    [] exc.class = "UnauthorizedException" -> error(id, 401, "AUTH_REQUIRED")
    [] OTHER -> error(id, -32000, "INTERNAL_ERROR")
handleToolError(id, exc) ==
  CASE exc.class = "McpHandledError" ->
         buildMcpErrorResult(id, IF exc.message = "" THEN "Error" ELSE exc.message, exc.code)
    [] exc.class = "UnauthorizedException" -> buildMcpErrorResult(id, "AUTH_REQUIRED", 401)
    [] OTHER -> buildMcpErrorResult(id, "INTERNAL_ERROR", -32000)

\* what handleJsonRpc ends with: a response returned, or an exception that leaves it
Responds(response, created, invoked) ==
  [escaped |-> NoExc, raised |-> NoExc, response |-> response, created |-> created,
   invoked |-> invoked]
Escapes(exc, created, invoked) ==
  [escaped |-> exc, raised |-> exc, response |-> NoResponse, created |-> created,
   invoked |-> invoked]

\* params?.name and params?.arguments
ParamName(params) == IF params.t \in {"undefined", "null"} THEN JsUndefined ELSE params.name
ParamArguments(params) ==
  IF params.t \in {"undefined", "null"} THEN NoArguments ELSE params.arguments

\* lines 322-333, the body of the try block
TryToolCall(users, toolDef, params, headers, user, devSub, env) ==
  LET userId == IF toolDef.auth = "required"
                  THEN resolveUserId(users, headers, devSub, env)
                  ELSE Gives(user.userId, {}, {})
      payload == executeTool(params.name.s, params.arguments, [userId |-> userId.val], env)
  IN IF userId.thrown THEN userId
     ELSE [payload EXCEPT !.created = userId.created]

\* lines 321 and 334-336: try { ... } catch (error) { return handleToolError(...) }
CatchRethrows(id, tried) ==
  IF tried.thrown THEN Escapes(tried.exc, tried.created, tried.invoked)
  ELSE Responds(buildMcpResult(id, tried.val), tried.created, tried.invoked)
Catch(id, tried) ==
  IF tried.thrown
    THEN [Responds(handleToolError(id, tried.exc), tried.created, tried.invoked)
            EXCEPT !.raised = tried.exc]
  ELSE Responds(buildMcpResult(id, tried.val), tried.created, tried.invoked)

Route(method) == IF method \in KnownMethods THEN method ELSE "other"

handleJsonRpc(users, body, headers, user, devSub, env) ==
  LET id == extractId(body)
      params == body.params
      toolDef == getToolDefinition(ParamName(params).s)
      route == Route(body.method.s)
  IN IF ~isValidRequest(body) THEN Responds(error(id, -32600, "Invalid Request"), {}, {})
     ELSE CASE route = "initialize" -> Responds(ResultOfMethod(id, "protocolVersion", {}), {}, {})
            [] route = "tools/list" -> Responds(ResultOfMethod(id, "tools", listTools), {}, {})
            [] route = "resources/list" -> Responds(ResultOfMethod(id, "resources", {}), {}, {})
            [] route = "prompts/list" -> Responds(ResultOfMethod(id, "prompts", {}), {}, {})
            [] route = "tools/call" ->
                 IF ParamName(params).t /= "string" \/ ~isObject(ParamArguments(params))
                   THEN Responds(error(id, -32600, "Invalid Request"), {}, {})
                 ELSE IF toolDef.name = NULLS
                   THEN Responds(error(id, -32601, "NOT_FOUND"), {}, {})
                 ELSE Catch(id, TryToolCall(users, toolDef, params, headers, user, devSub, env))
            [] OTHER -> Responds(error(id, -32601, "Method not found"), {}, {})

\* the router between two requests
McpIdle(users, devSub) ==
  [phase |-> "idle", users |-> users, devSub |-> devSub,
   body |-> NonObject("null"), headers |-> NoAuthorization, user |-> [userId |-> NULLS],
   call |-> [name |-> NULLS, arguments |-> NoArguments, userId |-> NULLS],
   response |-> NoResponse, escaped |-> NoExc, raised |-> NoExc, invoked |-> {}]

\* ------------------------------------------------- rows, results, processes
NoHead == [id |-> 0, title |-> <<>>, category |-> NULLS, description |-> NULLS,
           servings |-> NULLN, status |-> "NONE",
           nutritionTotal |-> NoNutrition, nutritionPerServing |-> NoNutrition]

\* what a call returns or raises; one shape for every operation
NoResult == [kind |-> "none", head |-> NoHead, ingredients |-> <<>>, steps |-> <<>>,
             isValid |-> FALSE, missingFields |-> <<>>, missingIngredients |-> <<>>]
ErrorResult(code) == [NoResult EXCEPT !.kind = code]

\* the writes of an open transaction, invisible to the others until it commits
NoTx == [ingDel |-> {}, ingPut |-> {}, stepDel |-> {}, stepPut |-> {}]

NoIng == [amount |-> NULLN, unit |-> NULLS, productId |-> NULLS, macros |-> NoMacros,
          order |-> NULLN]

IdleProc == [pc |-> "idle", op |-> "none", n |-> 0, draftId |-> 0, key |-> NULLS,
             ingredient |-> NoIng, order |-> NULLN, ingredientId |-> 0,
             stepsArg |-> <<>>, existingByOrder |-> NULLN,
             total |-> NoNutrition, perServing |-> NoNutrition,
             read |-> NoResult, tx |-> NoTx]

\* a call returns or raises: what the caller observes
Returned(q, res, isReplay) ==
  [op |-> q.op, draftId |-> q.draftId, key |-> q.key, result |-> res, replay |-> isReplay]
NoCall == Returned(IdleProc, NoResult, FALSE)

\* Callers are interchangeable: a new call is given to the first caller that is free
CanStart(p) ==
  /\ proc[p].pc = "idle"
  /\ ncalls < MaxCalls
  /\ \A q \in Procs : proc[q].pc = "idle" => \neg (q = "p1" /\ p = "p2")

\* outcome of a statement of caller q: go on, throw, or return
Go(q) == [kind |-> "go", q |-> q, result |-> NoResult, replay |-> FALSE]
Throw(q, code) == [kind |-> "end", q |-> q, result |-> ErrorResult(code), replay |-> FALSE]
Return(q, res, isReplay) == [kind |-> "end", q |-> q, result |-> res, replay |-> isReplay]

\* A throw inside $transaction drops the transaction's writes (they live in q.tx).
Apply(p, out) ==
  /\ proc' = [proc EXCEPT ![p] = IF out.kind = "go" THEN out.q ELSE IdleProc]
  /\ last' = IF out.kind = "go" THEN last ELSE Returned(out.q, out.result, out.replay)

\* the first statement of a call
Start(p, out) ==
  /\ CanStart(p)
  /\ ncalls' = ncalls + 1
  /\ proc' = [proc EXCEPT ![p] = IF out.kind = "go" THEN out.q ELSE IdleProc]
  /\ last' = IF out.kind = "go" THEN NoCall ELSE Returned(out.q, out.result, out.replay)

\* ---------------------------------------------- the store as a caller sees it
IdsOf(S) == {r.id : r \in S}

\* rows visible to the statements of caller q: committed rows and q's own writes
VIngs(q) ==
  {r \in ings : r.id \notin q.tx.ingDel /\ r.id \notin IdsOf(q.tx.ingPut)} \cup q.tx.ingPut
VSteps(q) == {r \in steps : r.id \notin q.tx.stepDel} \cup q.tx.stepPut

DraftExists(d) == d \in DraftIds /\ draft[d].exists

\* draft ids a client can name: the existing drafts and one id no draft has
Targets == {d \in DraftIds : draft[d].exists \/ \A e \in DraftIds : e < d => draft[e].exists}

HeadOf(d, row) ==
  [id |-> d, title |-> row.title, category |-> row.category,
   description |-> row.description, servings |-> row.servings, status |-> row.status,
   nutritionTotal |-> row.nutritionTotal, nutritionPerServing |-> row.nutritionPerServing]

\* findUnique({where: {id}, include: {ingredients: orderBy order, steps: orderBy order}})
\* over a draft row and the visible rows; recalcDraftNutritionTx joins the product of
\* each ingredient, getDraft does not
DraftWithRelations(d, row, ingRows, stepRows, joinProduct) ==
  [NoResult EXCEPT !.kind = "draft",
                   !.head = HeadOf(d, row),
                   !.ingredients = SortByOrder(
                      {IF joinProduct THEN WithProduct(r) ELSE WithoutProduct(r) :
                         r \in {x \in ingRows : x.draftId = d}}),
                   !.steps = SortByOrder({r \in stepRows : r.draftId = d})]

\* row locks and unique-index entries held by the open transaction of another caller
IngLocked(p, id) ==
  \E q \in Procs \ {p} : id \in proc[q].tx.ingDel \cup IdsOf(proc[q].tx.ingPut)
OrderKeyLocked(p, d, order) ==
  \E q \in Procs \ {p} : \E r \in proc[q].tx.ingPut : r.draftId = d /\ r.order = order
\* a step row deleted by the open transaction of a call other than q
StepHeld(q, id) ==
  \E x \in Procs : /\ proc[x].n /= q.n /\ proc[x].pc \notin {"idle", "steps.blocked"}
                   /\ id \in proc[x].tx.stepDel

\* a lookup by operation and key alone, which takes no account of the entity
FindIdemAnyEntity(operation, key, entityId) ==
  {r \in idem : r.operation = operation /\ r.key = key}

\* idempotencyKey.findUnique({where: {operation_key_entityId}})
FindIdem(operation, key, entityId) ==
  {r \in idem : r.operation = operation /\ r.key = key /\ r.entityId = entityId}

\* a RecipeDraftIngredient row from an addIngredient payload
IngredientRow(id, d, order, g) ==
  [id |-> id, draftId |-> d, order |-> order, amount |-> g.amount, unit |-> g.unit,
   productId |-> g.productId, kcal100 |-> g.macros.kcal100,
   protein100 |-> g.macros.protein100, fat100 |-> g.macros.fat100,
   carbs100 |-> g.macros.carbs100]

\* A store the service has filled before: draft 1 as created by createDraft,
\* with one snapshot ingredient (addIngredient) and one step (setSteps).
\* ================================================== McpService.validateInput
\* The arguments of a tool call are a JSON object: a function from the member
\* names that occur to values, JsUndefined standing for an absent member.
ArgKeys ==
  {"name", "brand", "kcal100", "protein100", "fat100", "carbs100", "draftId",
   "clientRequestId"}
JsObject(f) == [t |-> "object", s |-> "", n |-> 0, f |-> f]
NoMembers == [k \in ArgKeys |-> JsUndefined]
IsInfinite(v) == v.t = "number" /\ v.s = "Infinity"

\* value.trim() on the strings that occur
Trim(s) == CASE s = "   " -> "" [] s = " Salmon " -> "Salmon" [] OTHER -> s
\* Number(value): a finite number, Infinity, or NaN (JsUndefined here)
NumberOf(s) ==
  CASE s = "168" -> JsNum(168)
    [] s = "0" -> JsNum(0)
    [] s = "   " -> JsNum(0)
    [] s = "" -> JsNum(0)
    [] s = "Infinity" -> [t |-> "number", s |-> "Infinity", n |-> 0]
    [] OTHER -> JsUndefined
\* String(value) of the numbers that occur
StringOf(n) == CASE n = 168 -> "168" [] n = 0 -> "0" [] n = 208 -> "208" [] OTHER -> "5"

\* a schema: its types in the order written, its enum if it has one, and for an
\* object its properties in the order written
Scalar(types) ==
  [type |-> types, hasEnum |-> FALSE, enum |-> {}, properties |-> <<>>, required |-> {},
   additionalProperties |-> TRUE]
Property(key, types) == [key |-> key, schema |-> Scalar(types)]
\* inputSchema of product.createManual and of recipeDraft.publish
inputSchema(tool) ==
  IF tool = "product.createManual"
    THEN [type |-> <<"object">>, hasEnum |-> FALSE, enum |-> {},
          properties |-> << Property("name", <<"string">>),
                            Property("brand", <<"string", "null">>),
                            Property("kcal100", <<"number">>),
                            Property("protein100", <<"number">>),
                            Property("fat100", <<"number">>),
                            Property("carbs100", <<"number">>) >>,
          required |-> {"name", "kcal100", "protein100", "fat100", "carbs100"},
          additionalProperties |-> FALSE]
    ELSE [type |-> <<"object">>, hasEnum |-> FALSE, enum |-> {},
          properties |-> << Property("draftId", <<"string">>) >>,
          required |-> {"draftId"},
          additionalProperties |-> FALSE]

Includes(types, t) == \E i \in 1..Len(types) : types[i] = t
\* describeType
describeType(value) == IF value.t = "boolean" THEN "boolean" ELSE value.t
FieldError(path, types, got) == [path |-> path, expected |-> types, got |-> got]
Coerced(value, errors) == [value |-> value, errors |-> errors]

\* coerceValue on a value that is not an object (lines 160-205 and 244-246)
coerceScalarAnyStringIsZero(schema, value0, path) ==
  IF Includes(schema.type, "number") /\ value0.t = "string"
    THEN Coerced(JsNum(0), <<>>)
    ELSE Coerced(value0, <<>>)
coerceScalar(schema, value0, path) ==
  LET types == schema.type
      parsed == IF Includes(types, "number") /\ value0.t = "string"
                   /\ Trim(value0.s) /= "" /\ NumberOf(value0.s) /= JsUndefined
                  THEN NumberOf(value0.s) ELSE value0
      value == IF Includes(types, "string") /\ parsed.t = "number"
                 THEN JsStr(StringOf(parsed.n)) ELSE parsed
  IN IF value0.t = "null"
       THEN IF Includes(types, "null") THEN Coerced(JsNull, <<>>)
            ELSE Coerced(JsNull, <<FieldError(path, types, "null")>>)
     ELSE IF Includes(types, "number") /\ value.t = "number"
       THEN IF ~IsInfinite(value) THEN Coerced(value, <<>>)
            ELSE Coerced(value, <<FieldError(path, <<"number">>, "non-finite number")>>)
     ELSE IF Includes(types, "string") /\ value.t = "string"
       THEN IF schema.hasEnum /\ Trim(value.s) \notin schema.enum
              THEN Coerced(JsStr(Trim(value.s)),
                           <<FieldError(path, <<"enum">>, Trim(value.s))>>)
              ELSE Coerced(JsStr(Trim(value.s)), <<>>)
     ELSE IF Includes(types, "boolean") /\ value.t = "boolean" THEN Coerced(value, <<>>)
     ELSE Coerced(value, <<FieldError(path, types, describeType(value))>>)

\* the loop over Object.keys(schema.properties) (lines 211-230), from property i on
RECURSIVE coerceProperties(_, _, _, _)
coerceProperties(schema, obj, path, i) ==
  IF i > Len(schema.properties) THEN Coerced(NoMembers, <<>>)
  ELSE LET key == schema.properties[i].key
           childPath == path \o <<key>>
           rest == coerceProperties(schema, obj, path, i + 1)
           child == coerceScalar(schema.properties[i].schema, obj.f[key], childPath)
       IN IF obj.f[key] = JsUndefined
            THEN IF key \in schema.required
                   THEN Coerced(rest.value,
                                <<FieldError(childPath, schema.properties[i].schema.type,
                                             "missing")>> \o rest.errors)
                   ELSE rest
            ELSE Coerced([rest.value EXCEPT ![key] = child.value],
                         child.errors \o rest.errors)

\* coerceValue on the arguments object (lines 207-242)
coerceValue(schema, obj, path) ==
  LET props == coerceProperties(schema, obj, path, 1)
      declared == {schema.properties[i].key : i \in 1..Len(schema.properties)}
  IN IF schema.additionalProperties = FALSE
       THEN Coerced(JsObject(props.value), props.errors)
       ELSE Coerced(JsObject([k \in ArgKeys |-> IF k \in declared THEN props.value[k]
                                                  ELSE obj.f[k]]),
                    props.errors)

\* validateInput (lines 135-150) on a plain object: the coerced arguments, or the
\* VALIDATION_ERROR with the field errors it carries; a path is the sequence of
\* member names that the code joins with dots
validateInputOf(tool, args) ==
  LET c == coerceValue(inputSchema(tool), args, <<>>)
  IN [thrown |-> c.errors /= <<>>,
      exc |-> IF c.errors /= <<>> THEN McpHandledError(-32000, "VALIDATION_ERROR")
              ELSE NoExc,
      fields |-> c.errors,
      value |-> c.value]

\* ====================================================== TdeeService (pure)
\* Heights, weights and ages are whole numbers here, so every product below is
\* an exact multiple of 1/4000 and Math.round is computed without rounding error.
\* calorieDelta?: number
NoDelta == [given |-> FALSE, n |-> 0]
Delta(n) == [given |-> TRUE, n |-> n]
\* Math.round(num / den) for den > 0: the nearest integer, halves upwards
Round(num, den) == (2 * num + den) \div (2 * den)
Max(a, b) == IF a >= b THEN a ELSE b

\* calculateBmrMifflin, times 4 (6.25 * heightCm is a multiple of 1/4)
calculateBmrMifflin(sex, heightCm, weightKg, ageYears) ==
  LET base == 40 * weightKg + 25 * heightCm - 20 * ageYears
  IN IF sex = "MALE" THEN base + 20 ELSE base - 644
\* activityFactor, times 1000
activityFactor(level) ==
  CASE level = "SEDENTARY" -> 1200
    [] level = "LIGHT" -> 1375
    [] level = "MODERATE" -> 1550
    [] level = "VERY_ACTIVE" -> 1725
    [] OTHER -> 1200
\* the goal's default when no calorieDelta is supplied
goalDelta(goal) == IF goal = "LOSE" THEN -400 ELSE IF goal = "GAIN" THEN 250 ELSE 0
\* input.calorieDelta ?? (goal default)
deltaOfFalsyOr(input) ==
  IF input.calorieDelta.given /\ input.calorieDelta.n /= 0 THEN input.calorieDelta.n
  ELSE goalDelta(input.goal)
deltaOf(input) ==
  IF input.calorieDelta.given THEN input.calorieDelta.n ELSE goalDelta(input.goal)

\* calculateTargets; input.ageYears is calculateAgeYears(input.birthDate) at the call
TargetValues(calories, protein, fat, carbs) ==
  [targetCalories |-> calories, targetProteinG |-> protein, targetFatG |-> fat,
   targetCarbsG |-> carbs]
calculateTargets(input) ==
  LET bmr == calculateBmrMifflin(input.sex, input.heightCm, input.weightKg, input.ageYears)
      tdee == bmr * activityFactor(input.activityLevel)
      targetCalories == Round(tdee + 4000 * deltaOf(input), 4000)
      proteinG == Round(input.weightKg * (IF input.goal = "GAIN" THEN 18 ELSE 16), 10)
      fatG == Round(input.weightKg * 8, 10)
      carbsG == Max(0, Round(targetCalories - proteinG * 4 - fatG * 9, 4))
  IN TargetValues(targetCalories, proteinG, fatG, carbsG)

\* ============================================================= UsersService
MaxUserCalls == 3  \* calls of the users service in one behaviour
\* a UserProfile row of the one user; NULLS, NULLN and NoDelta are SQL NULL, and
\* birthDate is held as the age in whole years that calculateAgeYears gives it
NoProfile ==
  [exists |-> FALSE, sex |-> NULLS, birthDate |-> NULLN, heightCm |-> NULLN,
   weightKg |-> NULLN, activityLevel |-> NULLS, goal |-> NULLS, calorieDelta |-> NoDelta,
   targetCalories |-> NULLN, targetProteinG |-> NULLN, targetFatG |-> NULLN,
   targetCarbsG |-> NULLN]
\* UpsertProfileInput; NULLS, NULLN and NoDelta are members left undefined
NoInput ==
  [sex |-> NULLS, birthDate |-> NULLN, heightCm |-> NULLN, weightKg |-> NULLN,
   activityLevel |-> NULLS, goal |-> NULLS, calorieDelta |-> NoDelta]
UpsertInputs ==
  { NoInput,
    [NoInput EXCEPT !.sex = "FEMALE", !.birthDate = 30, !.heightCm = 168,
                    !.weightKg = 60, !.activityLevel = "MODERATE"],
    [NoInput EXCEPT !.weightKg = 80],
    [NoInput EXCEPT !.weightKg = 0],
    [NoInput EXCEPT !.sex = "MALE", !.heightCm = 180],
    [NoInput EXCEPT !.goal = "LOSE", !.calorieDelta = Delta(0)] }

MissingFieldsError(missingFields) ==
  [class |-> "MissingFieldsError", code |-> 0,
   message |-> "Missing required fields for target calculation",
   missingFields |-> missingFields]
BadRequestException(message) == [class |-> "BadRequestException", code |-> 0, message |-> message]

\* prisma.userProfile.upsert: create from the input, or update the members given
Given(new, old, absent) == IF new = absent THEN old ELSE new
upsert(row, input) ==
  [row EXCEPT !.exists = TRUE,
              !.sex = Given(input.sex, @, NULLS),
              !.birthDate = Given(input.birthDate, @, NULLN),
              !.heightCm = Given(input.heightCm, @, NULLN),
              !.weightKg = Given(input.weightKg, @, NULLN),
              !.activityLevel = Given(input.activityLevel, @, NULLS),
              !.goal = Given(input.goal, @, NULLS),
              !.calorieDelta = Given(input.calorieDelta, @, NoDelta)]
\* getMissingFields: the members that are falsy
RequiredFields == {"sex", "birthDate", "heightCm", "weightKg", "activityLevel"}
getMissingFields(profile) ==
  {f \in RequiredFields :
     \/ f = "sex" /\ profile.sex = NULLS
     \/ f = "birthDate" /\ profile.birthDate = NULLN
     \/ f = "heightCm" /\ profile.heightCm \in {NULLN, 0}
     \/ f = "weightKg" /\ profile.weightKg \in {NULLN, 0}
     \/ f = "activityLevel" /\ profile.activityLevel = NULLS}
\* the argument recalculateIfPossible gives calculateTargets
TargetInput(profile) ==
  [sex |-> profile.sex, ageYears |-> profile.birthDate, heightCm |-> profile.heightCm,
   weightKg |-> profile.weightKg, activityLevel |-> profile.activityLevel,
   goal |-> IF profile.goal = NULLS THEN "MAINTAIN" ELSE profile.goal,
   calorieDelta |-> profile.calorieDelta]
\* prisma.userProfile.update of the four targets
updateTargets(row, targets) ==
  [row EXCEPT !.targetCalories = targets.targetCalories,
              !.targetProteinG = targets.targetProteinG,
              !.targetFatG = targets.targetFatG,
              !.targetCarbsG = targets.targetCarbsG]
TargetsOf(row) ==
  TargetValues(row.targetCalories, row.targetProteinG, row.targetFatG, row.targetCarbsG)

\* a caller of the users service: where it is, and the row its first statement gave
UserIdle ==
  [pc |-> "idle", op |-> "none", input |-> NoInput, profile |-> NoProfile,
   requireAll |-> FALSE]
\* the users call that ended most recently: what the service raised, what left the
\* tool's handler, and what the router answers
UserReturned(p, op, result) ==
  [p |-> p, op |-> op, ok |-> TRUE, raised |-> NoExc, escaped |-> NoExc,
   response |-> NoResponse, result |-> result]
UserRaised(p, op, raised, escaped, response) ==
  [p |-> p, op |-> op, ok |-> FALSE, raised |-> raised, escaped |-> escaped,
   response |-> response, result |-> NoProfile]
NoUserCall == [UserReturned(NULLS, "none", NoProfile) EXCEPT !.ok = FALSE]
NoUsers ==
  [profile |-> NoProfile, proc |-> [p \in Procs |-> UserIdle], last |-> NoUserCall, n |-> 0]

\* ====================================================== product.createManual
MaxShopCalls == 3  \* product.createManual calls in one behaviour
MaxTicks == 4      \* advances of the clock in one behaviour
TTL == 30000       \* 30_000 ms, the life of a recentCreates entry
\* the clock advances by 1 ms or by 29,999 ms
TickInputs == {1, 29999}
\* validated CreateProductDto values; NULLS is a brand left out
ProductInputs ==
  { [name |-> "Salmon", brand |-> NULLS, kcal100 |-> 208, protein100 |-> 20, fat100 |-> 13,
     carbs100 |-> 0],
    [name |-> "Salmon", brand |-> "Acme", kcal100 |-> 208, protein100 |-> 20, fat100 |-> 13,
     carbs100 |-> 0] }
NoDto ==
  [name |-> NULLS, brand |-> NULLS, kcal100 |-> NULLN, protein100 |-> NULLN,
   fat100 |-> NULLN, carbs100 |-> NULLN]
\* createSignature: the JSON text of the six members, brand ?? null
createSignature(dto) ==
  <<dto.name, dto.brand, dto.kcal100, dto.protein100, dto.fat100, dto.carbs100>>
\* recentCreates.get(signature): the entries are kept as a set, one per signature
CachedAt(cache, signature) == {c \in cache : c.signature = signature}
\* cached && cached.expiresAt > Date.now()
isFreshAtExpiry(cached, now) == cached /= {} /\ \A c \in cached : c.expiresAt >= now
isFresh(cached, now) == cached /= {} /\ \A c \in cached : c.expiresAt > now
\* recentCreates.set(signature, entry)
SetCached(cache, signature, expiresAt, product) ==
  {c \in cache : c.signature /= signature}
    \cup {[signature |-> signature, expiresAt |-> expiresAt, product |-> product]}
\* the process at its start: no Product row, an empty cache; calls is the history
\* of the calls made, each with the times it started and returned
NoShop ==
  [now |-> 0, ticks |-> 0, products |-> {}, recentCreates |-> {}, pc |-> "idle",
   dto |-> NoDto, started |-> 0, calls |-> <<>>]

\* ============================================================= OauthService
MaxIssued == 2       \* access tokens issued in one behaviour
MaxRequests == 3     \* requests resolved in one behaviour
MaxOauthTicks == 3   \* advances of the clock in one behaviour
HOUR == 3600000      \* 60 * 60 * 1000 ms, the life of an access token
\* the clock advances by 1 ms or by one hour less 1 ms
OauthTickInputs == {1, 3599999}
\* randomUUID(): the n-th token issued
TokenOf(n) ==
  CASE n = 1 -> "token-1" [] n = 2 -> "token-2" [] n = 3 -> "token-3" [] OTHER -> "token-4"
\* issueAccessToken: the record that tokens.set stores (subject ?? randomUUID())
AccessTokenRecord(token, subject, now) ==
  [token |-> token, expiresAt |-> now + HOUR,
   subject |-> IF subject = NULLS THEN "uuid" ELSE subject]
\* validateAccessToken: the record or NULLS, and the tokens map it leaves
RecordsOf(tokens, token) == {r \in tokens : r.token = token}
validateAccessTokenNeverExpires(tokens, token, now) ==
  IF RecordsOf(tokens, token) = {} THEN [subject |-> NULLS, tokens |-> tokens]
  ELSE [subject |-> (CHOOSE r \in RecordsOf(tokens, token) : TRUE).subject,
        tokens |-> tokens]
validateAccessToken(tokens, token, now) ==
  IF RecordsOf(tokens, token) = {} THEN [subject |-> NULLS, tokens |-> tokens]
  ELSE IF \E r \in RecordsOf(tokens, token) : r.expiresAt < now
    THEN [subject |-> NULLS, tokens |-> tokens \ RecordsOf(tokens, token)]
  ELSE [subject |-> (CHOOSE r \in RecordsOf(tokens, token) : TRUE).subject,
        tokens |-> tokens]
\* getSubjectFromToken: record?.subject ?? null
getSubjectFromToken(tokens, token, now) == validateAccessToken(tokens, token, now)
\* tryDecodeJwtSubject: the sub of a token of three dotted parts, else null
tryDecodeJwtSubject(token) == IF token = "h.p.s" THEN "sub-jwt" ELSE NULLS
\* resolveSubject against the token store: the subject or the exception
resolveSubjectStored(stored, token, devSub) ==
  IF token = "" /\ Truthy(devSub) THEN Gives(devSub, {}, {})
  ELSE IF Truthy(stored) THEN Gives(stored, {}, {})
  ELSE IF Truthy(tryDecodeJwtSubject(token)) THEN Gives(tryDecodeJwtSubject(token), {}, {})
  ELSE IF Truthy(devSub) THEN Gives(devSub, {}, {})
  ELSE Raises(UnauthorizedException("Invalid access token"), {}, {})
\* User rows: usersService.getOrCreateByExternalId finds the row or inserts it
UserRowsOf(users, externalId) == {u \in users : u.externalId = externalId}
upsertUser(users, externalId) ==
  IF UserRowsOf(users, externalId) /= {} THEN users
  ELSE users \cup {[id |-> Cardinality(users) + 1, externalId |-> externalId]}
\* a request that has not been made
NoRequest ==
  [token |-> NULLS, at |-> 0, stored |-> NULLS, thrown |-> FALSE, exc |-> NoExc,
   userId |-> 0]
\* the process at its start; issued is the history of the tokens handed out
NoOauth ==
  [now |-> 0, ticks |-> 0, devSub |-> NULLS, tokens |-> {}, users |-> {}, issued |-> {},
   phase |-> "idle", last |-> NoRequest, n |-> 0]

\* ====================================================== components at rest
\* Each specification below moves one component of the program and leaves the
\* others as they are after construction.
NoCalc == [fn |-> "none", phase |-> "done"]
NoToolCall == [p \in Procs |-> NULLS]
DraftsAtRest ==
  /\ draft = [d \in DraftIds |-> NoRow]
  /\ ings = {}
  /\ steps = {}
  /\ idem = {}
  /\ recipes = {}
  /\ proc = [p \in Procs |-> IdleProc]
  /\ last = NoCall
  /\ ncalls = 0
  /\ createKey = [d \in DraftIds |-> NULLS]
OthersAtRest ==
  /\ calc = NoCalc
  /\ usr = NoUsers
  /\ shop = NoShop
  /\ oauth = NoOauth
  /\ toolArgs = NoToolCall

InitIngredient ==
  IngredientRow(0, 1, 1, [amount |-> 200, unit |-> "G", productId |-> NULLS,
                          macros |-> MacrosA, order |-> 1])
InitNutrition == calculateNutritionTotals(<<WithProduct(InitIngredient)>>, 2)
InitDraft ==
  [exists |-> TRUE, title |-> <<"T">>, category |-> "soup", description |-> "d",
   servings |-> 2, status |-> "DRAFT", nutritionTotal |-> InitNutrition.total,
   nutritionPerServing |-> InitNutrition.perServing]

\* the empty store, or the store with the filled draft
Init ==
  /\ \/ /\ draft = [d \in DraftIds |-> NoRow]
        /\ ings = {}
        /\ steps = {}
     \/ /\ draft = [d \in DraftIds |-> IF d = 1 THEN InitDraft ELSE NoRow]
        /\ ings = {InitIngredient}
        /\ steps = {[id |-> 1, draftId |-> 1, order |-> 1, text |-> "mix"]}
  /\ idem = {}
  /\ recipes = {}
  /\ proc = [p \in Procs |-> IdleProc]
  /\ last = NoCall
  /\ ncalls = 0
  /\ createKey = [d \in DraftIds |-> NULLS]
  /\ mcp = McpIdle({}, NULLS)
  /\ OthersAtRest

\* ------------------------------------------------------------ createDraft
\* RecipeDraftsService.createDraft: one insert; the dto's clientRequestId is not read
CreateDraft(p, dto, clientRequestId) ==
  /\ CanStart(p)
  /\ \E d \in DraftIds :
       /\ ~draft[d].exists
       /\ \A e \in DraftIds : e < d => draft[e].exists
       /\ LET row == [exists |-> TRUE, title |-> dto.title, category |-> dto.category,
                      description |-> dto.description, servings |-> dto.servings,
                      status |-> "DRAFT", nutritionTotal |-> NoNutrition,
                      nutritionPerServing |-> NoNutrition]
          IN /\ draft' = [draft EXCEPT ![d] = row]
             /\ createKey' = [createKey EXCEPT ![d] = clientRequestId]
             /\ last' = Returned([IdleProc EXCEPT !.op = "recipeDraft.create",
                                     !.draftId = d, !.key = clientRequestId],
                                 DraftWithRelations(d, row, {}, {}, FALSE), FALSE)
  /\ ncalls' = ncalls + 1
  /\ UNCHANGED <<ings, steps, idem, recipes, proc, mcp, calc, usr, shop, oauth, toolArgs>>

\* ------------------------------------------------- the idempotency lookup
NewCall(operation, draftId, key) ==
  [IdleProc EXCEPT !.op = operation, !.n = ncalls + 1, !.draftId = draftId, !.key = key]

\* a lookup whose result is ignored: the keyed call always goes on
LookupOutNoReplay(q0, nextPc, cont) ==
  IF Truthy(q0.key) THEN Go([q0 EXCEPT !.pc = nextPc]) ELSE cont

\* the replay branch present in addIngredient only
LookupOutAddOnly(q0, nextPc, cont) ==
  IF Truthy(q0.key)
    THEN LET existingKey == {r \in idem : r.operation = q0.op /\ r.key = q0.key
                                           /\ r.entityId = q0.draftId} IN
         IF existingKey /= {} /\ q0.op = "recipeDraft.addIngredient"
           THEN Return(q0, (CHOOSE r \in existingKey : TRUE).result, TRUE)
           ELSE Go([q0 EXCEPT !.pc = nextPc])
    ELSE cont

\* `if (key && ...)`: with a key, idempotencyKey.findUnique is the handler's first
\* statement, and `if (existingKey?.result)` returns the stored result (a stored object
\* or array is always truthy); without a key the handler goes straight on to `cont`
LookupOut(q0, nextPc, cont) ==
  IF Truthy(q0.key)
    THEN LET existingKey == FindIdem(q0.op, q0.key, q0.draftId) IN
         IF existingKey /= {}
           THEN Return(q0, (CHOOSE r \in existingKey : TRUE).result, TRUE)
           ELSE Go([q0 EXCEPT !.pc = nextPc])
    ELSE cont

\* ----------------------------------------------------------- addIngredient
\* the next order taken from the number of ingredients, not from the greatest order
nextIngredientOrderByCount(q, d) ==
  Cardinality({x \in VIngs(q) : x.draftId = d}) + 1

\* nextIngredientOrderTx: (aggregate _max order ?? 0) + 1
nextIngredientOrderTx(q, d) ==
  LET orders == {r.order : r \in {x \in VIngs(q) : x.draftId = d}}
  IN (IF orders = {} THEN 0 ELSE CHOOSE m \in orders : \A o \in orders : o <= m) + 1

\* lines 152-154: findFirst({where: {draftId, order}})
FindFirstOut(q) ==
  LET found == {r \in VIngs(q) : r.draftId = q.draftId /\ r.order = q.order}
  IN Go([q EXCEPT !.pc = "add.write",
                  !.existingByOrder = IF found = {} THEN NULLN
                                      ELSE (CHOOSE r \in found : TRUE).id])

\* lines 143-150: the draft must exist; the order is the caller's, or an aggregate
\* query gives it (with the caller's order, the next statement is the findFirst)
FindOut(q) ==
  IF ~DraftExists(q.draftId) THEN Throw(q, "NOT_FOUND")
  ELSE IF q.order /= NULLN THEN FindFirstOut(q)
  ELSE Go([q EXCEPT !.pc = "add.byOrder", !.order = nextIngredientOrderTx(q, q.draftId)])

\* lines 156-189: update the row found at the order, or create a row
WriteOut(q) ==
  IF q.existingByOrder /= NULLN
    THEN IF q.existingByOrder \notin IdsOf(VIngs(q))
           THEN Throw(q, "P2025_RECORD_NOT_FOUND")
           ELSE Go([q EXCEPT !.pc = "recalc.read",
                     !.tx.ingPut = {IngredientRow(q.existingByOrder, q.draftId, q.order,
                                                  q.ingredient)}])
    ELSE IF \E r \in VIngs(q) : r.draftId = q.draftId /\ r.order = q.order
           THEN Throw(q, "P2002_DRAFT_ORDER")
           ELSE Go([q EXCEPT !.pc = "recalc.read",
                     !.tx.ingPut = {IngredientRow(q.n, q.draftId, q.order, q.ingredient)}])

\* addIngredient is called: lines 124-150
AddIngredient(p, draftId, ingredient, clientRequestId, ingClientRequestId) ==
  LET key == IF clientRequestId /= NULLS THEN clientRequestId ELSE ingClientRequestId
      q0 == [NewCall("recipeDraft.addIngredient", draftId, key)
               EXCEPT !.ingredient = ingredient, !.order = ingredient.order]
  IN /\ Start(p, LookupOut(q0, "add.find", FindOut(q0)))
     /\ UNCHANGED <<draft, ings, steps, idem, recipes, createKey, mcp, calc, usr, shop, oauth,
                  toolArgs>>

AddIngredientFind(p) ==
  /\ proc[p].pc = "add.find"
  /\ Apply(p, FindOut(proc[p]))
  /\ UNCHANGED <<draft, ings, steps, idem, recipes, ncalls, createKey, mcp, calc, usr, shop,
               oauth, toolArgs>>

AddIngredientFindFirst(p) ==
  /\ proc[p].pc = "add.byOrder"
  /\ Apply(p, FindFirstOut(proc[p]))
  /\ UNCHANGED <<draft, ings, steps, idem, recipes, ncalls, createKey, mcp, calc, usr, shop,
               oauth, toolArgs>>

\* the update waits for a row another transaction wrote, the insert for an entry of
\* the unique index (draftId, order) another transaction inserted
AddIngredientWrite(p) ==
  /\ proc[p].pc = "add.write"
  /\ IF proc[p].existingByOrder /= NULLN
       THEN ~IngLocked(p, proc[p].existingByOrder)
       ELSE ~OrderKeyLocked(p, proc[p].draftId, proc[p].order)
  /\ Apply(p, WriteOut(proc[p]))
  /\ UNCHANGED <<draft, ings, steps, idem, recipes, ncalls, createKey, mcp, calc, usr, shop,
               oauth, toolArgs>>

\* -------------------------------------------------------- removeIngredient
\* a delete by id alone, which takes no account of the draft
DeleteOutAnyDraft(q) ==
  IF \E r \in VIngs(q) : r.id = q.ingredientId
    THEN Go([q EXCEPT !.pc = "recalc.read", !.tx.ingDel = {q.ingredientId}])
    ELSE Throw(q, "NOT_FOUND")

\* lines 230-236: deleteMany({where: {id, draftId}}), zero rows is NOT_FOUND
DeleteOut(q) ==
  IF \E r \in VIngs(q) : r.id = q.ingredientId /\ r.draftId = q.draftId
    THEN Go([q EXCEPT !.pc = "recalc.read", !.tx.ingDel = {q.ingredientId}])
    ELSE Throw(q, "NOT_FOUND")

\* removeIngredient is called: lines 211-236 (the delete waits for a row another
\* transaction wrote)
RemoveIngredient(p, draftId, ingredientId, clientRequestId) ==
  LET q0 == [NewCall("recipeDraft.removeIngredient", draftId, clientRequestId)
               EXCEPT !.ingredientId = ingredientId]
  IN /\ Truthy(clientRequestId) \/ ~IngLocked(p, ingredientId)
     /\ Start(p, LookupOut(q0, "remove.delete", DeleteOut(q0)))
     /\ UNCHANGED <<draft, ings, steps, idem, recipes, createKey, mcp, calc, usr, shop, oauth,
                  toolArgs>>

RemoveIngredientDelete(p) ==
  /\ proc[p].pc = "remove.delete"
  /\ ~IngLocked(p, proc[p].ingredientId)
  /\ Apply(p, DeleteOut(proc[p]))
  /\ UNCHANGED <<draft, ings, steps, idem, recipes, ncalls, createKey, mcp, calc, usr, shop,
               oauth, toolArgs>>

\* ----------------------------------------------------------------- setSteps
\* lines 286-294: createMany with order index + 1
NewSteps(q) ==
  {[id |-> q.n * 10 + i, draftId |-> q.draftId, order |-> i, text |-> q.stepsArg[i]] :
     i \in 1..Len(q.stepsArg)}

\* a setSteps that answers a missing draft with no steps in place of the throw
WriteStepsOutMissingIsEmpty(q) ==
  IF ~DraftExists(q.draftId) THEN Return(q, [NoResult EXCEPT !.kind = "steps"], FALSE)
  ELSE LET seen == IdsOf({r \in VSteps(q) : r.draftId = q.draftId}) IN
       IF \E id \in seen : StepHeld(q, id)
         THEN Go([q EXCEPT !.pc = "steps.blocked", !.tx.stepDel = seen])
         ELSE Go([q EXCEPT !.pc = "recalc.read", !.tx.stepDel = seen,
                           !.tx.stepPut = NewSteps(q)])

\* lines 278-294: the draft must exist; deleteMany of the draft's steps, then
\* createMany.  The deleteMany sees the rows committed when it starts.  When another
\* open transaction has deleted one of them it waits for that transaction to end
\* (pc "steps.blocked", the rows it saw kept in tx.stepDel) and then deletes those of
\* the rows it saw that still exist: rows the other transaction inserted are not
\* among them.
WriteStepsOut(q) ==
  IF ~DraftExists(q.draftId) THEN Throw(q, "NOT_FOUND")
  ELSE LET seen == IdsOf({r \in VSteps(q) : r.draftId = q.draftId}) IN
       IF \E id \in seen : StepHeld(q, id)
         THEN Go([q EXCEPT !.pc = "steps.blocked", !.tx.stepDel = seen])
         ELSE Go([q EXCEPT !.pc = "recalc.read", !.tx.stepDel = seen,
                           !.tx.stepPut = NewSteps(q)])

\* setSteps is called: lines 259-294
SetSteps(p, draftId, stepTexts, clientRequestId) ==
  LET q0 == [NewCall("recipeDraft.setSteps", draftId, clientRequestId)
               EXCEPT !.stepsArg = stepTexts]
  IN /\ Start(p, LookupOut(q0, "steps.write", WriteStepsOut(q0)))
     /\ UNCHANGED <<draft, ings, steps, idem, recipes, createKey, mcp, calc, usr, shop, oauth,
                  toolArgs>>

SetStepsWrite(p) ==
  /\ proc[p].pc = "steps.write"
  /\ Apply(p, WriteStepsOut(proc[p]))
  /\ UNCHANGED <<draft, ings, steps, idem, recipes, ncalls, createKey, mcp, calc, usr, shop,
               oauth, toolArgs>>

\* the transaction the deleteMany waited for has ended: line 285 completes, then
\* lines 286-294
SetStepsResume(p) ==
  /\ proc[p].pc = "steps.blocked"
  /\ \A id \in proc[p].tx.stepDel : ~StepHeld(proc[p], id)
  /\ Apply(p, Go([proc[p] EXCEPT !.pc = "recalc.read",
                                 !.tx.stepDel = proc[p].tx.stepDel \cap IdsOf(steps),
                                 !.tx.stepPut = NewSteps(proc[p])]))
  /\ UNCHANGED <<draft, ings, steps, idem, recipes, ncalls, createKey, mcp, calc, usr, shop,
               oauth, toolArgs>>

\* ------------------------------------- recalcDraftNutritionTx and the commit
\* lines 473-486: read the draft with its relations, compute the nutrition
RecalcRead(p) ==
  /\ proc[p].pc = "recalc.read"
  /\ LET q == proc[p]
         dwr == DraftWithRelations(q.draftId, draft[q.draftId], VIngs(q), VSteps(q), TRUE)
         nut == calculateNutritionTotals(dwr.ingredients, dwr.head.servings)
     IN proc' = [proc EXCEPT ![p].pc = "recalc.write",
                   ![p].total = nut.total, ![p].perServing = nut.perServing]
  /\ UNCHANGED <<draft, ings, steps, idem, recipes, last, ncalls, createKey, mcp, calc, usr,
                 shop, oauth, toolArgs>>

\* what the handler returns and stores: the draft, its ingredients or its steps
ResultOf(operation, dwr) ==
  CASE operation = "recipeDraft.removeIngredient" ->
         [NoResult EXCEPT !.kind = "ingredients", !.ingredients = dwr.ingredients]
    [] operation = "recipeDraft.setSteps" ->
         [NoResult EXCEPT !.kind = "steps", !.steps = dwr.steps]
    [] OTHER -> dwr

IdemRow(q, res) == [operation |-> q.op, key |-> q.key, entityId |-> q.draftId, result |-> res]

\* an upsert in place of the create: the last write replaces the record
InsertIdemUpsert(table, row) ==
  [ok |-> TRUE,
   table |-> {r \in table : ~(r.operation = row.operation /\ r.key = row.key
                               /\ r.entityId = row.entityId)} \cup {row}]

\* idempotencyKey.create under the unique index (operation, key, entityId)
InsertIdem(table, row) ==
  IF FindIdem(row.operation, row.key, row.entityId) /= {}
    THEN [ok |-> FALSE, table |-> table]
    ELSE [ok |-> TRUE, table |-> table \cup {row}]

\* recalcDraftNutritionTx lines 488-499, then the end of addIngredient (193-205),
\* removeIngredient (241-253) and setSteps (299-311): the update of the draft row,
\* the second read, the insert of the record when keyed, and the commit.  The update
\* takes the lock of the draft row and every transaction that changes a draft takes
\* that lock before it commits, so from the update to the commit nothing this
\* transaction reads changes: the four are one step.  A unique violation on the
\* record is thrown and the transaction rolled back.
RecalcWriteAndCommit(p) ==
  /\ proc[p].pc = "recalc.write"
  /\ LET q == proc[p]
         row == [draft[q.draftId] EXCEPT !.nutritionTotal = q.total,
                                         !.nutritionPerServing = q.perServing]
         dwr == DraftWithRelations(q.draftId, row, VIngs(q), VSteps(q), TRUE)
         res == ResultOf(q.op, dwr)
         ins == InsertIdem(idem, IdemRow(q, res))
     IN IF Truthy(q.key) /\ ~ins.ok
          THEN /\ Apply(p, Throw(q, "P2002_IDEMPOTENCY"))
               /\ UNCHANGED <<draft, ings, steps, idem>>
          ELSE /\ ings' = VIngs(q)
               /\ steps' = VSteps(q)
               /\ draft' = [draft EXCEPT ![q.draftId] = row]
               /\ idem' = IF Truthy(q.key) THEN ins.table ELSE idem
               /\ Apply(p, Return(q, res, FALSE))
  /\ UNCHANGED <<recipes, ncalls, createKey, mcp, calc, usr, shop, oauth, toolArgs>>

\* ------------------------------------------------------------- publishDraft
\* the rows prisma.recipe.create writes for the Recipe: new ids, the draft's data
RecipeIngredients(n, ingSeq) ==
  [i \in 1..Len(ingSeq) |->
     [id |-> n * 10 + i, recipeId |-> n, order |-> ingSeq[i].order,
      amount |-> ingSeq[i].amount, unit |-> ingSeq[i].unit,
      productId |-> ingSeq[i].productId, kcal100 |-> ingSeq[i].kcal100,
      protein100 |-> ingSeq[i].protein100, fat100 |-> ingSeq[i].fat100,
      carbs100 |-> ingSeq[i].carbs100]]
RecipeSteps(n, stepSeq) ==
  [i \in 1..Len(stepSeq) |->
     [id |-> n * 10 + i, recipeId |-> n, order |-> stepSeq[i].order, text |-> stepSeq[i].text]]

\* the Recipe of lines 370-417, from the draft read by getDraft (q.read)
RecipeOf(q) ==
  LET d == q.read
      hasSnapshotIngredient == \E i \in 1..Len(d.ingredients) : d.ingredients[i].productId = NULLS
  IN [NoResult EXCEPT
        !.kind = "recipe",
        !.head = [id |-> q.n, title |-> d.head.title, category |-> d.head.category,
                  description |-> buildPublishedDescription(d.head.description,
                                                            hasSnapshotIngredient),
                  servings |-> d.head.servings, status |-> "NONE",
                  nutritionTotal |-> q.total, nutritionPerServing |-> q.perServing],
        !.ingredients = SortByOrder({RecipeIngredients(q.n, d.ingredients)[i] :
                                       i \in 1..Len(d.ingredients)}),
        !.steps = SortByOrder({RecipeSteps(q.n, d.steps)[i] : i \in 1..Len(d.steps)})]

\* lines 356-368: getDraft, the totals (no product is joined), the validation
GetOut(q) ==
  IF ~DraftExists(q.draftId) THEN Throw(q, "NOT_FOUND")
  ELSE LET d == DraftWithRelations(q.draftId, draft[q.draftId], ings, steps, FALSE)
           nut == calculateNutritionTotals(d.ingredients, d.head.servings)
           validation == evaluateDraft(d)
       IN IF ~validation.isValid
            THEN Return(q, [ErrorResult("DRAFT_INCOMPLETE") EXCEPT
                              !.missingFields = validation.missingFields,
                              !.missingIngredients = validation.missingIngredients], FALSE)
            ELSE Go([q EXCEPT !.pc = "pub.tx", !.read = d,
                              !.total = nut.total, !.perServing = nut.perServing])

\* publishDraft is called: lines 338-368; its lookup runs outside any transaction
PublishDraft(p, draftId, clientRequestId) ==
  LET q0 == NewCall("recipeDraft.publish", draftId, clientRequestId)
  IN /\ Start(p, LookupOut(q0, "pub.get", GetOut(q0)))
     /\ UNCHANGED <<draft, ings, steps, idem, recipes, createKey, mcp, calc, usr, shop, oauth,
                  toolArgs>>

PublishDraftGet(p) ==
  /\ proc[p].pc = "pub.get"
  /\ Apply(p, GetOut(proc[p]))
  /\ UNCHANGED <<draft, ings, steps, idem, recipes, ncalls, createKey, mcp, calc, usr, shop,
               oauth, toolArgs>>

\* lines 378-425: one transaction creates the Recipe with its rows and sets the
\* draft's status; it reads nothing, so its statements and its commit are one step
PublishDraftTx(p) ==
  /\ proc[p].pc = "pub.tx"
  /\ LET q == proc[p]
         recipe == RecipeOf(q)
     IN /\ recipes' = recipes \cup {[srcDraft |-> q.draftId, srcKey |-> q.key, body |-> recipe]}
        /\ draft' = [draft EXCEPT ![q.draftId].status = "PUBLISHED"]
        /\ IF Truthy(q.key)
             THEN Apply(p, Go([q EXCEPT !.pc = "pub.record", !.read = recipe]))
             ELSE Apply(p, Return(q, recipe, FALSE))
  /\ UNCHANGED <<ings, steps, idem, ncalls, createKey, mcp, calc, usr, shop, oauth, toolArgs>>

\* lines 427-438: the record is inserted after the transaction, on its own
PublishDraftRecord(p) ==
  /\ proc[p].pc = "pub.record"
  /\ LET q == proc[p]
         ins == InsertIdem(idem, IdemRow(q, q.read))
     IN IF ins.ok
          THEN /\ idem' = ins.table
               /\ Apply(p, Return(q, q.read, FALSE))
          ELSE /\ Apply(p, Throw(q, "P2002_IDEMPOTENCY"))
               /\ UNCHANGED idem
  /\ UNCHANGED <<draft, ings, steps, recipes, ncalls, createKey, mcp, calc, usr, shop, oauth,
                 toolArgs>>

\* ------------------------------------------------------------ validateDraft
\* RecipeDraftsService.validateDraft (lines 332-335): getDraft, one query outside
\* any transaction, then evaluateDraft; nothing is written
ValidateDraft(p, draftId) ==
  LET q0 == NewCall("recipeDraft.validate", draftId, NULLS)
      d == DraftWithRelations(draftId, draft[draftId], ings, steps, FALSE)
      validation == evaluateDraft(d)
  IN /\ Start(p, IF ~DraftExists(draftId) THEN Throw(q0, "NOT_FOUND")
                 ELSE Return(q0, [NoResult EXCEPT
                                    !.kind = "validation",
                                    !.isValid = validation.isValid,
                                    !.missingFields = validation.missingFields,
                                    !.missingIngredients = validation.missingIngredients],
                             FALSE))
     /\ UNCHANGED <<draft, ings, steps, idem, recipes, createKey, mcp, calc, usr, shop, oauth,
                  toolArgs>>

\* --------------------------------------------------------------------- Next
Next ==
  \E p \in Procs :
    \/ \E dto \in DraftInputs, k \in KeyInputs : CreateDraft(p, dto, k)
    \/ \E d \in Targets, g \in IngInputs, k \in KeyInputs, gk \in KeyInputs :
          AddIngredient(p, d, g, k, gk)
    \/ AddIngredientFind(p)
    \/ AddIngredientFindFirst(p)
    \/ AddIngredientWrite(p)
    \/ \E d \in Targets, id \in IdsOf(ings) \cup {UnknownId}, k \in KeyInputs :
          RemoveIngredient(p, d, id, k)
    \/ RemoveIngredientDelete(p)
    \/ \E d \in Targets, s \in StepInputs, k \in KeyInputs \cup {""} : SetSteps(p, d, s, k)
    \/ SetStepsWrite(p)
    \/ SetStepsResume(p)
    \/ RecalcRead(p)
    \/ RecalcWriteAndCommit(p)
    \/ \E d \in Targets, k \in KeyInputs : PublishDraft(p, d, k)
    \/ PublishDraftGet(p)
    \/ PublishDraftTx(p)
    \/ PublishDraftRecord(p)
    \/ \E d \in Targets : ValidateDraft(p, d)

Spec == Init /\ [][Next]_vars

\* ============================================= the MCP router as a state machine
DraftsUntouched ==
  UNCHANGED <<draft, ings, steps, idem, recipes, proc, last, ncalls, createKey, calc, usr,
              shop, oauth, toolArgs>>

\* McpController.handleMcp (lines 257-264): one POST /mcp, routed by handleJsonRpc
HandleMcp ==
  /\ mcp.phase = "idle"
  /\ \E body \in BodyInputs, headers \in HeaderInputs, user \in UserInputs, env \in EnvInputs :
       LET out == handleJsonRpc(mcp.users, body, headers, user, mcp.devSub, env)
       IN mcp' = [mcp EXCEPT !.phase = "responded", !.body = body, !.headers = headers,
                             !.user = user, !.response = out.response,
                             !.escaped = out.escaped, !.raised = out.raised,
                             !.invoked = out.invoked,
                             !.users = mcp.users \cup out.created]
  /\ DraftsUntouched

\* McpService.executeTool (lines 104-119) called with an execution context
ExecuteTool ==
  /\ mcp.phase = "idle"
  /\ \E name \in ToolNames \cup {"recipe.createDraft", "nope"}, arguments \in ArgInputs,
        userId \in {NULLS, "", "u-req"}, env \in EnvInputs :
       LET out == executeTool(name, arguments, [userId |-> userId], env)
       IN mcp' = [mcp EXCEPT !.phase = "executed",
                             !.call = [name |-> name, arguments |-> arguments,
                                       userId |-> userId],
                             !.escaped = out.exc, !.invoked = out.invoked]
  /\ DraftsUntouched

\* the transport has sent the response (or the failure); the next request can come
Reply ==
  /\ mcp.phase \in {"responded", "executed"}
  /\ mcp' = McpIdle(mcp.users, mcp.devSub)
  /\ DraftsUntouched

McpInit ==
  /\ draft = [d \in DraftIds |-> NoRow]
  /\ ings = {}
  /\ steps = {}
  /\ idem = {}
  /\ recipes = {}
  /\ proc = [p \in Procs |-> IdleProc]
  /\ last = NoCall
  /\ ncalls = 0
  /\ createKey = [d \in DraftIds |-> NULLS]
  /\ \E devSub \in DevSubInputs : mcp = McpIdle({}, devSub)
  /\ OthersAtRest

McpNext ==
  \/ HandleMcp
  \/ ExecuteTool
  \/ Reply

McpSpec == McpInit /\ [][McpNext]_vars

\* ============================================ UsersService as a state machine
\* Two callers; every awaited Prisma statement is a step of its own, as no
\* transaction spans the statements of upsertProfile or recalculateTargets.
OthersThanUsers ==
  UNCHANGED <<draft, ings, steps, idem, recipes, proc, last, ncalls, createKey, mcp, calc,
              shop, oauth, toolArgs>>

\* the handler of the tool userTargets.recalculate (mcp.service.ts 660-665): what
\* leaves it when recalculateTargets raises exc
recalculateHandler(exc) == exc
\* what the caller of a failed userTargets.recalculate is left with
RecalculateFailed(p, exc) ==
  UserRaised(p, "recalculateTargets", exc, recalculateHandler(exc),
             handleToolError(JsNum(1), recalculateHandler(exc)))

\* upsertProfile to its first statement: the checks and prisma.userProfile.upsert
UpsertProfile(p) ==
  /\ usr.proc[p].pc = "idle"
  /\ usr.n < MaxUserCalls
  /\ \E input \in UpsertInputs :
       IF input.heightCm = 0
         THEN usr' = [usr EXCEPT !.n = @ + 1,
                        !.last = UserRaised(p, "upsertProfile",
                                            BadRequestException("heightCm must be > 0"),
                                            NoExc, NoResponse)]
       ELSE IF input.weightKg = 0
         THEN usr' = [usr EXCEPT !.n = @ + 1,
                        !.last = UserRaised(p, "upsertProfile",
                                            BadRequestException("weightKg must be > 0"),
                                            NoExc, NoResponse)]
       ELSE usr' = [usr EXCEPT !.n = @ + 1,
                      !.profile = upsert(usr.profile, input),
                      !.proc[p] = [pc |-> "recalculate", op |-> "upsertProfile",
                                   input |-> input,
                                   profile |-> upsert(usr.profile, input),
                                   requireAll |-> FALSE]]
  /\ OthersThanUsers

\* the tool userTargets.recalculate: recalculateTargets to its findUnique
RecalculateTargets(p) ==
  /\ usr.proc[p].pc = "idle"
  /\ usr.n < MaxUserCalls
  /\ IF ~usr.profile.exists
       THEN usr' = [usr EXCEPT !.n = @ + 1,
                      !.last = RecalculateFailed(p, MissingFieldsError(RequiredFields))]
       ELSE usr' = [usr EXCEPT !.n = @ + 1,
                      !.proc[p] = [pc |-> "recalculate", op |-> "recalculateTargets",
                                   input |-> NoInput, profile |-> usr.profile,
                                   requireAll |-> TRUE]]
  /\ OthersThanUsers

\* recalculateIfPossible up to its prisma.userProfile.update
RecalculateIfPossible(p) ==
  /\ usr.proc[p].pc = "recalculate"
  /\ LET profile == usr.proc[p].profile
         missingFields == getMissingFields(profile)
     IN IF missingFields /= {}
          THEN IF usr.proc[p].requireAll
                 THEN usr' = [usr EXCEPT !.proc[p] = UserIdle,
                                !.last = RecalculateFailed(p, MissingFieldsError(missingFields))]
                 ELSE usr' = [usr EXCEPT !.proc[p].pc = "findUnique"]
          ELSE usr' = [usr EXCEPT !.proc[p].pc = "findUnique",
                         !.profile = updateTargets(@, calculateTargets(TargetInput(profile)))]
  /\ OthersThanUsers

\* the closing prisma.userProfile.findUnique, whose row the call returns
FindUnique(p) ==
  /\ usr.proc[p].pc = "findUnique"
  /\ usr' = [usr EXCEPT !.proc[p] = UserIdle,
               !.last = UserReturned(p, usr.proc[p].op, usr.profile)]
  /\ OthersThanUsers

UsersInit ==
  /\ DraftsAtRest
  /\ mcp = McpIdle({}, NULLS)
  /\ OthersAtRest
UsersNext ==
  \E p \in Procs :
    \/ UpsertProfile(p)
    \/ RecalculateTargets(p)
    \/ RecalculateIfPossible(p)
    \/ FindUnique(p)
UsersSpec == UsersInit /\ [][UsersNext]_vars
\* the same service with its calls made one after another
Alone(p) == \A q \in Procs \ {p} : usr.proc[q].pc = "idle"
UsersOneAtATimeNext ==
  \E p \in Procs :
    /\ Alone(p)
    /\ \/ UpsertProfile(p)
       \/ RecalculateTargets(p)
       \/ RecalculateIfPossible(p)
       \/ FindUnique(p)
UsersOneAtATimeSpec == UsersInit /\ [][UsersOneAtATimeNext]_vars

\* ================================================= pure functions, applied
\* The inputs of one application are drawn at the start; the action applies the
\* function and keeps what it returned.
OthersThanCalc ==
  UNCHANGED <<draft, ings, steps, idem, recipes, proc, last, ncalls, createKey, mcp, usr,
              shop, oauth, toolArgs>>

\* arguments objects of product.createManual and recipeDraft.publish
CreateManualArgs ==
  { JsObject([NoMembers EXCEPT !["name"] = name, !["brand"] = brand, !["kcal100"] = kcal,
                               !["protein100"] = JsNum(0), !["fat100"] = JsNum(0),
                               !["carbs100"] = JsNum(0), !["clientRequestId"] = key]) :
      name \in {JsStr("Salmon"), JsStr(" Salmon "), JsNum(5), JsUndefined},
      brand \in {JsUndefined, JsNull, JsStr("Acme")},
      kcal \in {JsUndefined, JsNull, JsNum(208), JsStr("168"), JsStr("abc"), JsStr(""),
                JsStr("   "), JsStr("Infinity")},
      key \in {JsUndefined, JsStr("k1")} }
PublishArgs ==
  { JsObject([NoMembers EXCEPT !["draftId"] = draftId, !["clientRequestId"] = key]) :
      draftId \in {JsStr("d1"), JsNum(5), JsUndefined},
      key \in {JsUndefined, JsStr("k1")} }
ValidateInputs ==
  [fn : {"validateInput"}, phase : {"input"}, tool : {"product.createManual"},
   args : CreateManualArgs]
  \cup [fn : {"validateInput"}, phase : {"input"}, tool : {"recipeDraft.publish"},
        args : PublishArgs]

\* executeTool from validateInput on (mcp.service.ts 114-117): the handler runs,
\* with the coerced arguments, only if validateInput raised nothing
ValidateInput ==
  /\ calc.fn = "validateInput"
  /\ calc.phase = "input"
  /\ LET out == validateInputOf(calc.tool, calc.args)
     IN calc' = [fn |-> "validateInput", phase |-> "done", tool |-> calc.tool,
                 args |-> calc.args, out |-> out,
                 invoked |-> IF out.thrown THEN {} ELSE {out.value}]
  /\ OthersThanCalc

\* ingredient lists of calculateNutritionTotals, each row with its product joined
MaxIngredients == 2
NutritionRows ==
  { [amount |-> amount, unit |-> unit, kcal100 |-> macros.kcal100,
     protein100 |-> macros.protein100, fat100 |-> macros.fat100,
     carbs100 |-> macros.carbs100, product |-> product] :
      amount \in {NULLN, 100}, unit \in {NULLS, "G", "kg", "pcs", "constructor"},
      macros \in {MacrosA, NoMacros}, product \in Products \cup {NoProduct} }
ServingInputs == {NULLN, 0, 2, -2}
NutritionInputs ==
  [fn : {"calculateNutritionTotals"}, phase : {"input"},
   ingredients : UNION {[1..n -> NutritionRows] : n \in 0..MaxIngredients},
   servings : ServingInputs]

CalculateNutritionTotals ==
  /\ calc.fn = "calculateNutritionTotals"
  /\ calc.phase = "input"
  /\ calc' = [fn |-> calc.fn, phase |-> "done", ingredients |-> calc.ingredients,
              servings |-> calc.servings,
              out |-> calculateNutritionTotals(calc.ingredients, calc.servings)]
  /\ OthersThanCalc

\* inputs of calculateTargets
TargetInputs ==
  [fn : {"calculateTargets"}, phase : {"input"},
   input : [sex : {"MALE", "FEMALE"}, ageYears : {0, 30}, heightCm : {1, 168},
            weightKg : {1, 63}, activityLevel : {"SEDENTARY", "LIGHT", "MODERATE",
                                                 "VERY_ACTIVE"},
            goal : {"MAINTAIN", "LOSE", "GAIN"},
            calorieDelta : {NoDelta, Delta(0), Delta(150), Delta(-3000)}]]

CalculateTargets ==
  /\ calc.fn = "calculateTargets"
  /\ calc.phase = "input"
  /\ calc' = [fn |-> calc.fn, phase |-> "done", input |-> calc.input,
              out |-> calculateTargets(calc.input)]
  /\ OthersThanCalc

CalcInputs == ValidateInputs \cup NutritionInputs \cup TargetInputs
CalcInit ==
  /\ DraftsAtRest
  /\ mcp = McpIdle({}, NULLS)
  /\ calc \in CalcInputs
  /\ usr = NoUsers
  /\ shop = NoShop
  /\ oauth = NoOauth
  /\ toolArgs = NoToolCall
CalcNext ==
  \/ ValidateInput
  \/ CalculateNutritionTotals
  \/ CalculateTargets
CalcSpec == CalcInit /\ [][CalcNext]_vars

\* ============================== McpService.createManual as a state machine
\* One caller after another, as in the claim; the clock may advance between the
\* two reads of Date.now() that a creating call makes.
OthersThanShop ==
  UNCHANGED <<draft, ings, steps, idem, recipes, proc, last, ncalls, createKey, mcp, calc,
              usr, oauth, toolArgs>>
CallRecord(dto, started, returned, product, persisted) ==
  [dto |-> dto, started |-> started, returned |-> returned, product |-> product,
   persisted |-> persisted]

\* createManual up to productsService.createManual: the cached product is
\* returned, or the creation is under way
CreateManual ==
  /\ shop.pc = "idle"
  /\ Len(shop.calls) < MaxShopCalls
  /\ \E dto \in ProductInputs :
       LET cached == CachedAt(shop.recentCreates, createSignature(dto))
       IN IF isFresh(cached, shop.now)
            THEN shop' = [shop EXCEPT
                   !.calls = Append(@, CallRecord(dto, shop.now, shop.now,
                                                  (CHOOSE c \in cached : TRUE).product,
                                                  FALSE))]
            ELSE shop' = [shop EXCEPT !.pc = "creating", !.dto = dto,
                                      !.started = shop.now]
  /\ OthersThanShop

\* the product is persisted, remembered for 30 s from now, and returned
CreateManualPersisted ==
  /\ shop.pc = "creating"
  /\ LET product == Cardinality(shop.products) + 1
     IN shop' = [shop EXCEPT
          !.pc = "idle", !.dto = NoDto, !.started = 0,
          !.products = @ \cup {[id |-> product, dto |-> shop.dto]},
          !.recentCreates = SetCached(@, createSignature(shop.dto), shop.now + TTL, product),
          !.calls = Append(@, CallRecord(shop.dto, shop.started, shop.now, product, TRUE))]
  /\ OthersThanShop

Tick ==
  /\ shop.ticks < MaxTicks
  /\ \E d \in TickInputs : shop' = [shop EXCEPT !.now = @ + d, !.ticks = @ + 1]
  /\ OthersThanShop

ShopInit ==
  /\ DraftsAtRest
  /\ mcp = McpIdle({}, NULLS)
  /\ OthersAtRest
ShopNext ==
  \/ CreateManual
  \/ CreateManualPersisted
  \/ Tick
ShopSpec == ShopInit /\ [][ShopNext]_vars

\* ======================== OauthService and AuthContextService as a state machine
OthersThanOauth ==
  UNCHANGED <<draft, ings, steps, idem, recipes, proc, last, ncalls, createKey, mcp, calc,
              usr, shop, toolArgs>>
SubjectInputs == {"s1", "s2", NULLS}
BearerOf(token) == [present |-> TRUE, bearer |-> TRUE, token |-> token]

\* issueAccessToken(clientId, scope, subject)
IssueAccessToken ==
  /\ oauth.phase = "idle"
  /\ Cardinality(oauth.issued) < MaxIssued
  /\ \E subject \in SubjectInputs :
       LET token == TokenOf(Cardinality(oauth.issued) + 1)
       IN oauth' = [oauth EXCEPT
            !.tokens = @ \cup {AccessTokenRecord(token, subject, oauth.now)},
            !.issued = @ \cup {[token |-> token, subject |-> subject, at |-> oauth.now]}]
  /\ OthersThanOauth

\* getOrCreateUserId on a request that carries Authorization: Bearer <token>
GetOrCreateUserId ==
  /\ oauth.phase = "idle"
  /\ oauth.n < MaxRequests
  /\ \E token \in {i.token : i \in oauth.issued} \cup {"bogus", "h.p.s"} :
       LET extracted == extractBearerToken(BearerOf(token), oauth.devSub)
           stored == getSubjectFromToken(oauth.tokens, extracted.val, oauth.now)
           subject == resolveSubjectStored(stored.subject, extracted.val, oauth.devSub)
           users == IF subject.thrown THEN oauth.users ELSE upsertUser(oauth.users, subject.val)
       IN oauth' = [oauth EXCEPT
            !.phase = "resolved",
            !.n = @ + 1,
            !.tokens = stored.tokens,
            !.users = users,
            !.last = [token |-> token, at |-> oauth.now, stored |-> stored.subject,
                      thrown |-> subject.thrown, exc |-> subject.exc,
                      userId |-> IF subject.thrown THEN 0
                                 ELSE (CHOOSE u \in UserRowsOf(users, subject.val) : TRUE).id]]
  /\ OthersThanOauth

\* the request is answered
OauthReply ==
  /\ oauth.phase = "resolved"
  /\ oauth' = [oauth EXCEPT !.phase = "idle", !.last = NoRequest]
  /\ OthersThanOauth

OauthTick ==
  /\ oauth.phase = "idle"
  /\ oauth.ticks < MaxOauthTicks
  /\ \E d \in OauthTickInputs : oauth' = [oauth EXCEPT !.now = @ + d, !.ticks = @ + 1]
  /\ OthersThanOauth

OauthInit ==
  /\ DraftsAtRest
  /\ mcp = McpIdle({}, NULLS)
  /\ calc = NoCalc
  /\ usr = NoUsers
  /\ shop = NoShop
  /\ \E devSub \in DevSubInputs : oauth = [NoOauth EXCEPT !.devSub = devSub]
  /\ toolArgs = NoToolCall
OauthNext ==
  \/ IssueAccessToken
  \/ GetOrCreateUserId
  \/ OauthReply
  \/ OauthTick
OauthSpec == OauthInit /\ [][OauthNext]_vars

\* ================================= the tool recipeDraft.publish as a state machine
\* the draftId a tool call names, and the draft a validated draftId names
DraftName(d) == IF d = 1 THEN "draft-1" ELSE "draft-2"
DraftNamed(name) == IF name = "draft-1" THEN 1 ELSE 2
ToolKeyInputs == {NULLS, "k1", "k2"}
\* the arguments object {draftId, clientRequestId} of a tool call
PublishArguments(draftId, clientRequestId) ==
  JsObject([NoMembers EXCEPT
              !["draftId"] = JsStr(DraftName(draftId)),
              !["clientRequestId"] = IF clientRequestId = NULLS THEN JsUndefined
                                     ELSE JsStr(clientRequestId)])
\* args.clientRequestId as the handler reads it: a string, or undefined
ArgumentKey(args) ==
  IF args.f["clientRequestId"].t = "string" THEN args.f["clientRequestId"].s ELSE NULLS

\* executeTool on recipeDraft.publish (mcp.service.ts 114-117): the arguments pass
\* validateInput, and the handler (1018-1023) calls publishDraft with what is left
PublishTool(p, draftId, clientRequestId) ==
  LET validated == validateInputOf("recipeDraft.publish",
                                   PublishArguments(draftId, clientRequestId))
      args == validated.value
      q0 == NewCall("recipeDraft.publish", DraftNamed(args.f["draftId"].s), ArgumentKey(args))
  IN /\ ~validated.thrown
     /\ Start(p, LookupOut(q0, "pub.get", GetOut(q0)))
     /\ toolArgs' = [toolArgs EXCEPT ![p] = clientRequestId]
     /\ UNCHANGED <<draft, ings, steps, idem, recipes, createKey, mcp, calc, usr, shop,
                  oauth>>

ToolInit ==
  /\ draft = [d \in DraftIds |-> IF d = 1 THEN InitDraft ELSE NoRow]
  /\ ings = {InitIngredient}
  /\ steps = {[id |-> 1, draftId |-> 1, order |-> 1, text |-> "mix"]}
  /\ idem = {}
  /\ recipes = {}
  /\ proc = [p \in Procs |-> IdleProc]
  /\ last = NoCall
  /\ ncalls = 0
  /\ createKey = [d \in DraftIds |-> NULLS]
  /\ mcp = McpIdle({}, NULLS)
  /\ OthersAtRest
\* publishDraft's keyed steps (PublishDraftGet, PublishDraftRecord) follow a call
\* that has a key
ToolNext ==
  \E p \in Procs :
    \/ \E d \in DraftIds, k \in ToolKeyInputs : PublishTool(p, d, k)
    \/ PublishDraftTx(p)
ToolSpec == ToolInit /\ [][ToolNext]_vars

\* ------------------------------------------------ vocabulary of the claims
OpAdd == "recipeDraft.addIngredient"
OpRemove == "recipeDraft.removeIngredient"
OpSetSteps == "recipeDraft.setSteps"
OpPublish == "recipeDraft.publish"
DraftMutations == {OpAdd, OpRemove, OpSetSteps}
NonEmptyKeys == {"k1"}
KeyedOps == DraftMutations \cup {OpPublish}

RecordsFor(operation, k, d) ==
  {r \in idem : r.operation = operation /\ r.key = k /\ r.entityId = d}
IngredientsOf(rows, d) == {r \in rows : r.draftId = d}
StepsOf(rows, d) == {r \in rows : r.draftId = d}
StoreUnchanged == UNCHANGED <<draft, ings, steps, idem, recipes>>

\* the table row under an ingredient as a relation query returned it
RowOf(g) ==
  [id |-> g.id, draftId |-> g.draftId, order |-> g.order, amount |-> g.amount,
   unit |-> g.unit, productId |-> g.productId, kcal100 |-> g.kcal100,
   protein100 |-> g.protein100, fat100 |-> g.fat100, carbs100 |-> g.carbs100]

\* this step is the start of a call of `operation` with key k on draft d
CallStarts(operation, k, d) ==
  /\ ncalls' = ncalls + 1
  /\ \/ \E p \in Procs : /\ proc[p].pc = "idle" /\ proc'[p].pc /= "idle"
                         /\ proc'[p].op = operation /\ proc'[p].key = k
                         /\ proc'[p].draftId = d
     \/ proc' = proc /\ last'.op = operation /\ last'.key = k /\ last'.draftId = d

\* this step returns the stored result of a record of (operation, k, d) as a replay
ReturnsStored(operation, k, d) ==
  /\ proc' = proc
  /\ \E r \in RecordsFor(operation, k, d) :
       last' = [op |-> operation, draftId |-> d, key |-> k, result |-> r.result,
                replay |-> TRUE]

\* this step commits the transaction of p's keyed call of `operation`
KeyedCommit(p, operation) ==
  /\ proc[p].pc = "recalc.write" /\ proc[p].op = operation /\ Truthy(proc[p].key)
  /\ proc'[p].pc = "idle"
  /\ last'.result.kind \in {"draft", "ingredients", "steps"}

OrderOccupied(d, order) == \E r \in ings : r.draftId = d /\ r.order = order

\* C1 as stated: a keyed addIngredient that runs while a record of its key and draft
\* exists returns the stored result and adds nothing, and the keyed addIngredient that
\* wrote the record left the draft with exactly one more ingredient.
C1_AsStated ==
  [][ /\ \A k \in NonEmptyKeys, d \in DraftIds :
           CallStarts(OpAdd, k, d) /\ RecordsFor(OpAdd, k, d) /= {}
             => ReturnsStored(OpAdd, k, d) /\ StoreUnchanged
      /\ \A p \in Procs : KeyedCommit(p, OpAdd) =>
           Cardinality(IngredientsOf(ings', proc[p].draftId))
             = Cardinality(IngredientsOf(ings, proc[p].draftId)) + 1 ]_vars

\* C1 (amended): of two addIngredient calls in sequence with the same non-empty key
\* and draft, the first stores the result it returns and the second returns that
\* stored result and changes nothing; the first leaves the draft with exactly one
\* more ingredient when no ingredient occupied its order, and with the same number
\* of ingredients when it overwrote the ingredient at an occupied order.
C1_ReplayAddsAtMostOne ==
  [][ /\ \A k \in NonEmptyKeys, d \in DraftIds :
           CallStarts(OpAdd, k, d) /\ RecordsFor(OpAdd, k, d) /= {}
             => ReturnsStored(OpAdd, k, d) /\ StoreUnchanged
      /\ \A p \in Procs : KeyedCommit(p, OpAdd) =>
           /\ Cardinality(IngredientsOf(ings', proc[p].draftId))
                = Cardinality(IngredientsOf(ings, proc[p].draftId))
                  + (IF OrderOccupied(proc[p].draftId, proc[p].order) THEN 0 ELSE 1)
           /\ \E r \in idem' : /\ r.operation = OpAdd /\ r.key = proc[p].key
                               /\ r.entityId = proc[p].draftId
                               /\ r.result = last'.result ]_vars

\* a second addIngredient with the key of a first one that added a second ingredient
\* to the draft has returned the stored draft
C1_Witness ==
  /\ last.replay /\ last.op = OpAdd
  /\ Len(last.result.ingredients) = 2
  /\ Cardinality(IngredientsOf(ings, last.draftId)) = 2

\* C2 as stated: no keyed addIngredient, removeIngredient or setSteps whose record
\* insert conflicts with a committed record fails; the conflict never reaches the caller.
C2_ConflictNeverSurfaces ==
  ~(last.op \in DraftMutations /\ last.result.kind = "P2002_IDEMPOTENCY")

\* C3 as stated: the publishDraft calls that carry one key for one draft create
\* exactly one Recipe between them.
C3_OneRecipePerKey ==
  \A k \in NonEmptyKeys, d \in DraftIds :
    Cardinality({r \in recipes : r.srcDraft = d /\ r.srcKey = k}) <= 1

\* C4: a keyed addIngredient, removeIngredient or setSteps that finds a record of its
\* (operation, key, draft) returns the stored result and leaves the drafts, their
\* ingredients, steps and nutrition and the records as they were.
C4_ReplayChangesNothing ==
  [][ \A operation \in DraftMutations, k \in NonEmptyKeys, d \in DraftIds :
        CallStarts(operation, k, d) /\ RecordsFor(operation, k, d) /= {}
          => ReturnsStored(operation, k, d) /\ StoreUnchanged ]_vars

\* a replay whose stored draft is no longer the draft's present content
C4_Witness ==
  /\ last.replay /\ last.op = OpAdd
  /\ IngredientsOf(ings, last.draftId)
       /= {RowOf(last.result.ingredients[i]) : i \in 1..Len(last.result.ingredients)}

\* C5: a record never answers a call of another draft or another operation: a keyed
\* call that finds no record of its own (operation, key, draft) is not replayed, and
\* a keyed call that succeeds has its own record, holding the result it returned.
C5_ScopedPerOperationAndDraft ==
  /\ [][ \A operation \in KeyedOps, k \in NonEmptyKeys, d \in DraftIds :
           CallStarts(operation, k, d) /\ RecordsFor(operation, k, d) = {}
             => ~(proc' = proc /\ last'.replay) ]_vars
  /\ [](last.op \in KeyedOps /\ Truthy(last.key)
          /\ last.result.kind \in {"draft", "ingredients", "steps", "recipe"}
        => \E r \in RecordsFor(last.op, last.key, last.draftId) : r.result = last.result)

\* the same key has a record of the same operation for two drafts
C5_Witness ==
  \E r1 \in idem, r2 \in idem :
    r1.key = r2.key /\ r1.operation = r2.operation /\ r1.entityId /= r2.entityId

\* C6: at most one record for each (operation, key, entity id), and a record, once
\* written, is never changed or removed.
C6_OneRecordFirstWriteWins ==
  /\ [](\A r1 \in idem, r2 \in idem :
          r1.operation = r2.operation /\ r1.key = r2.key /\ r1.entityId = r2.entityId
            => r1 = r2)
  /\ [][idem \subseteq idem']_vars

\* a second insert for a recorded (operation, key, entity id) was attempted
C6_Witness ==
  /\ last.result.kind = "P2002_IDEMPOTENCY"
  /\ RecordsFor(last.op, last.key, last.draftId) /= {}

\* C7 as stated: no two drafts were created with the same non-empty client key.
C7_OneDraftPerCreateKey ==
  \A d1 \in DraftIds, d2 \in DraftIds :
    draft[d1].exists /\ draft[d2].exists /\ Truthy(createKey[d1])
      /\ createKey[d1] = createKey[d2] => d1 = d2

\* C8 as stated: the stored nutrition of a draft that has one equals
\* calculateNutritionTotals of its committed ingredients and servings.
C8_NutritionMatchesIngredients ==
  \A d \in DraftIds :
    draft[d].exists /\ draft[d].nutritionTotal /= NoNutrition =>
      LET nut == calculateNutritionTotals(
                   SortByOrder({WithProduct(r) : r \in IngredientsOf(ings, d)}),
                   draft[d].servings)
      IN draft[d].nutritionTotal = nut.total /\ draft[d].nutritionPerServing = nut.perServing

\* this step runs getDraft and the validation of a publishDraft on draft d
Validates(d) ==
  \/ \E p \in Procs : proc[p].pc = "pub.get" /\ proc[p].draftId = d /\ proc'[p].pc /= "pub.get"
  \/ CallStarts(OpPublish, NULLS, d)
PassesValidation(d) ==
  \E p \in Procs : proc[p].pc /= "pub.tx" /\ proc'[p].pc = "pub.tx" /\ proc'[p].draftId = d
CreatesRecipe(p) == proc[p].pc = "pub.tx" /\ proc'[p].pc /= "pub.tx"

CompleteIngredient(r) ==
  \/ r.productId /= NULLS
  \/ r.kcal100 /= NULLN /\ r.protein100 /= NULLN /\ r.fat100 /= NULLN /\ r.carbs100 /= NULLN
NonBlank(title) == \E i \in 1..Len(title) : title[i] /= " "
PresentDraft(d) == DraftWithRelations(d, draft[d], ings, steps, FALSE)

\* the publishDraft that fails validation raises what validateDraft reports, and
\* changes nothing
RaisesIncomplete(d) ==
  /\ ~PassesValidation(d)
  /\ last'.op = OpPublish /\ last'.draftId = d
  /\ last'.result.kind = "DRAFT_INCOMPLETE"
  /\ last'.result.missingFields = evaluateDraft(PresentDraft(d)).missingFields
  /\ last'.result.missingIngredients = evaluateDraft(PresentDraft(d)).missingIngredients
  /\ StoreUnchanged

\* C9 as stated: publishDraft raises DraftIncompleteError on an invalid draft, and
\* succeeds once the draft has a title, at least one complete ingredient and a step.
C9_AsStated ==
  [][ \A d \in DraftIds : Validates(d) /\ DraftExists(d) =>
        /\ ( \/ ~NonBlank(draft[d].title)
             \/ IngredientsOf(ings, d) = {}
             \/ StepsOf(steps, d) = {}
             \/ \E r \in IngredientsOf(ings, d) : ~CompleteIngredient(r) )
           => RaisesIncomplete(d)
        /\ ( /\ NonBlank(draft[d].title)
             /\ \E r \in IngredientsOf(ings, d) : CompleteIngredient(r)
             /\ StepsOf(steps, d) /= {} )
           => PassesValidation(d) ]_vars

\* C9 (amended): a publishDraft that is not a replay, on a draft with a blank title,
\* no ingredient, no step or an incomplete ingredient, raises DraftIncompleteError
\* with the missingFields and missingIngredients validateDraft returns for the draft,
\* creates no Recipe, writes no record and leaves the draft as it was; on a draft with
\* a non-blank title, at least one ingredient, no incomplete ingredient and at least
\* one step it passes the validation and creates a Recipe.
C9_PublishValidates ==
  [][ /\ \A d \in DraftIds : Validates(d) /\ DraftExists(d) =>
           IF /\ NonBlank(draft[d].title)
              /\ IngredientsOf(ings, d) /= {}
              /\ \A r \in IngredientsOf(ings, d) : CompleteIngredient(r)
              /\ StepsOf(steps, d) /= {}
             THEN PassesValidation(d)
             ELSE RaisesIncomplete(d)
      /\ \A p \in Procs : CreatesRecipe(p) =>
           Cardinality(recipes') = Cardinality(recipes) + 1 ]_vars

\* a draft was published, then given an incomplete ingredient, and the next
\* publishDraft was rejected with that ingredient named
C9_Witness ==
  /\ last.op = OpPublish /\ last.result.kind = "DRAFT_INCOMPLETE"
  /\ last.result.missingIngredients /= <<>>
  /\ recipes /= {}

IngredientData(g) ==
  [order |-> g.order, amount |-> g.amount, unit |-> g.unit, productId |-> g.productId,
   kcal100 |-> g.kcal100, protein100 |-> g.protein100, fat100 |-> g.fat100,
   carbs100 |-> g.carbs100]
StepData(t) == [order |-> t.order, text |-> t.text]
DataSeq(rowSeq, F(_)) == [i \in 1..Len(rowSeq) |-> F(rowSeq[i])]

\* C10 as stated: the Recipe a publishDraft creates has the title, category,
\* servings, ordered ingredients and ordered steps the draft has when its status
\* becomes PUBLISHED, and no state has a Recipe whose draft is not PUBLISHED.
C10_RecipeIsTheDraftAtPublish ==
  /\ [][ \A p \in Procs : CreatesRecipe(p) =>
           LET d == proc[p].draftId IN
           /\ draft'[d].status = "PUBLISHED"
           /\ Cardinality(recipes' \ recipes) = 1
           /\ \E r \in recipes' \ recipes :
                /\ r.body.head.title = draft[d].title
                /\ r.body.head.category = draft[d].category
                /\ r.body.head.servings = draft[d].servings
                /\ DataSeq(r.body.ingredients, IngredientData)
                     = DataSeq(SortByOrder(IngredientsOf(ings, d)), IngredientData)
                /\ DataSeq(r.body.steps, StepData)
                     = DataSeq(SortByOrder(StepsOf(steps, d)), StepData) ]_vars
  /\ [](/\ \A r \in recipes : draft[r.srcDraft].status = "PUBLISHED"
        /\ \A d \in DraftIds : draft[d].exists /\ draft[d].status = "PUBLISHED"
             => \E r \in recipes : r.srcDraft = d)

RecipesOf(rows, d) == {r \in rows : r.srcDraft = d}

\* C11 as stated: a PUBLISHED draft stays PUBLISHED, and no step changes its
\* ingredients or its steps or adds a Recipe made from it.
C11_PublishedIsTerminal ==
  [][ \A d \in DraftIds : draft[d].exists /\ draft[d].status = "PUBLISHED" =>
        /\ draft'[d].status = "PUBLISHED"
        /\ IngredientsOf(ings', d) = IngredientsOf(ings, d)
        /\ StepsOf(steps', d) = StepsOf(steps, d)
        /\ RecipesOf(recipes', d) = RecipesOf(recipes, d) ]_vars

\* this step commits p's addIngredient, which returns the draft
AddCommit(p) ==
  /\ proc[p].pc = "recalc.write" /\ proc[p].op = OpAdd
  /\ proc'[p].pc = "idle" /\ last'.result.kind = "draft"
MaxOrder(rows) ==
  IF rows = {} THEN 0 ELSE CHOOSE m \in {r.order : r \in rows} : \A r \in rows : r.order <= m

\* C12: no two ingredients of a draft have the same order.  An addIngredient writes
\* at the caller's order or, with none, at the greatest order of the draft plus one;
\* it looks for the ingredient at that order, and the call that found one and
\* succeeds replaces that ingredient's data (same row, same number of ingredients,
\* the others untouched), while the call that found none and succeeds adds one row.
C12_OrderUniqueOverwriteInPlace ==
  /\ [](\A r1 \in ings, r2 \in ings :
          r1.draftId = r2.draftId /\ r1.order = r2.order => r1 = r2)
  /\ [][ \A p \in Procs :
           /\ proc[p].pc /= "add.byOrder" /\ proc'[p].pc = "add.byOrder"
                => proc'[p].order = MaxOrder(IngredientsOf(ings, proc'[p].draftId)) + 1
           /\ proc[p].pc /= "add.write" /\ proc'[p].pc = "add.write"
                => LET at == {r \in ings : r.draftId = proc'[p].draftId
                                            /\ r.order = proc'[p].order}
                   IN /\ proc'[p].ingredient.order /= NULLN
                           => proc'[p].order = proc'[p].ingredient.order
                      /\ IF at = {} THEN proc'[p].existingByOrder = NULLN
                         ELSE proc'[p].existingByOrder \in IdsOf(at)
           /\ AddCommit(p)
                => LET d == proc[p].draftId
                       o == proc[p].order
                       g == proc[p].ingredient
                   IN IF proc[p].existingByOrder /= NULLN
                        THEN \E old \in ings :
                               /\ old.id = proc[p].existingByOrder
                               /\ old.draftId = d /\ old.order = o
                               /\ ings' = (ings \ {old}) \cup {IngredientRow(old.id, d, o, g)}
                        ELSE /\ ~OrderOccupied(d, o)
                             /\ ings' = ings \cup {IngredientRow(proc[p].n, d, o, g)} ]_vars

\* the ingredient at order 1 was overwritten in place by the product-linked payload
\* and the draft has a second ingredient at the next order
C12_Witness ==
  /\ \E r \in ings : r.id = 0 /\ r.order = 1 /\ r.productId = "prod1"
  /\ \E r \in ings : r.draftId = 1 /\ r.order = 2
  /\ Cardinality(IngredientsOf(ings, 1)) = 2

\* this step runs the deleteMany of p's removeIngredient
DeleteRuns(p) ==
  \/ proc[p].pc = "remove.delete" /\ proc'[p].pc /= "remove.delete"
  \/ proc[p].pc = "idle" /\ proc'[p].pc = "recalc.read" /\ proc'[p].op = OpRemove
\* this step ends a removeIngredient on draft d at its first statement
RemoveEndsAtOnce(k, d) == CallStarts(OpRemove, k, d) /\ proc' = proc
\* this step commits p's removeIngredient, which returns the ingredients
RemoveCommit(p) ==
  /\ proc[p].pc = "recalc.write" /\ proc[p].op = OpRemove
  /\ proc'[p].pc = "idle" /\ last'.result.kind = "ingredients"
IsIngredientOf(id, d) == \E r \in ings : r.id = id /\ r.draftId = d

\* C13 as stated: a removeIngredient on a draft that has no ingredient at all fails
\* with NOT_FOUND, whatever its key, and changes nothing.
C13_AsStated ==
  [][ \A k \in KeyInputs, d \in DraftIds :
        RemoveEndsAtOnce(k, d) /\ IngredientsOf(ings, d) = {}
          => last'.result.kind = "NOT_FOUND" /\ StoreUnchanged ]_vars

\* C13 (amended): a removeIngredient that is not a replay of a recorded key and
\* names an id that is no ingredient of the given draft fails with NOT_FOUND and
\* changes no draft, ingredient, step, nutrition or record; one that names an
\* ingredient of the draft goes on, and when it succeeds exactly that ingredient
\* is deleted.
C13_RemoveScopedToDraft ==
  [][ /\ \A p \in Procs : DeleteRuns(p) =>
           LET q == IF proc[p].pc = "idle" THEN proc'[p] ELSE proc[p] IN
           IF IsIngredientOf(q.ingredientId, q.draftId)
             THEN proc'[p].pc = "recalc.read" /\ StoreUnchanged
             ELSE /\ proc'[p].pc = "idle"
                  /\ last'.op = OpRemove /\ last'.result.kind = "NOT_FOUND"
                  /\ StoreUnchanged
      /\ \A d \in DraftIds : RemoveEndsAtOnce(NULLS, d) =>
           last'.result.kind = "NOT_FOUND" /\ StoreUnchanged
      /\ \A p \in Procs : RemoveCommit(p) =>
           /\ \E row \in ings :
                /\ row.id = proc[p].ingredientId /\ row.draftId = proc[p].draftId
                /\ ings' = ings \ {row}
           /\ steps' = steps ]_vars

\* a draft with no ingredient was asked to remove the ingredient of another draft
C13_Witness ==
  /\ last.op = OpRemove /\ last.result.kind = "NOT_FOUND"
  /\ last.draftId = 2 /\ draft[2].exists
  /\ IngredientsOf(ings, 1) /= {}

\* C14 as stated, for every committed state: the steps of a draft are those of the
\* one setSteps that wrote them last, numbered 1..n with one step for each number.
C14_StepsNumberedOnce ==
  \A d \in DraftIds :
    LET rows == StepsOf(steps, d) IN
    /\ \A r1 \in rows, r2 \in rows : r1.order = r2.order => r1 = r2
    /\ {r.order : r \in rows} = 1..Cardinality(rows)
    /\ \A r1 \in rows, r2 \in rows : r1.id \div 10 = r2.id \div 10

OpValidate == "recipeDraft.validate"

\* C15: validateDraft on an existing draft, whatever its status and content, returns
\* a result, raises nothing and changes nothing, and the result's isValid is true
\* exactly when the title is not blank, the draft has an ingredient and a step, and
\* every ingredient has a productId or all four macros.
C15_ValidateReadOnlyAndExact ==
  [][ \A d \in DraftIds : CallStarts(OpValidate, NULLS, d) /\ DraftExists(d) =>
        /\ proc' = proc
        /\ StoreUnchanged
        /\ last'.result.kind = "validation"
        /\ last'.result.isValid
             = ( /\ NonBlank(draft[d].title)
                 /\ IngredientsOf(ings, d) /= {}
                 /\ StepsOf(steps, d) /= {}
                 /\ \A r \in IngredientsOf(ings, d) : CompleteIngredient(r) ) ]_vars

\* a PUBLISHED draft that has since been given an incomplete ingredient was
\* validated and found invalid
C15_Witness ==
  /\ last.op = OpValidate /\ last.result.kind = "validation"
  /\ ~last.result.isValid /\ last.result.missingIngredients /= <<>>
  /\ draft[last.draftId].status = "PUBLISHED"

\* ------------------------------------------------------- claims on the router
\* a direct call of executeTool has just ended
Executes == mcp.phase = "idle" /\ mcp'.phase = "executed"
AuthRequired == McpHandledError(401, "AUTH_REQUIRED")

\* C16: executeTool never invokes the handler of a tool declared auth: required when
\* the execution context has no user id: the call fails with AUTH_REQUIRED and
\* changes no state; a tool declared auth: none is executed without a user id
\* (its handler runs, with the arguments its schema accepts).
C16_AuthCheckedBeforeHandler ==
  [][Executes =>
       LET tool == getToolDefinition(mcp'.call.name)
           noUser == ~Truthy(mcp'.call.userId)
       IN /\ (tool.name /= NULLS /\ tool.auth = "required" /\ noUser) =>
               /\ mcp'.invoked = {}
               /\ mcp'.escaped = AuthRequired
               /\ mcp'.users = mcp.users
               /\ StoreUnchanged
          /\ (tool.name /= NULLS /\ tool.auth = "none" /\ noUser
              /\ mcp'.call.arguments = [t |-> "object", valid |-> TRUE]) =>
               /\ mcp'.invoked = {[tool |-> tool.name, userId |-> mcp'.call.userId]}
               /\ mcp'.escaped /= AuthRequired]_vars
C16_Witness ==
  /\ mcp.phase = "executed"
  /\ mcp.call.name = "user.me" /\ mcp.call.userId = NULLS
  /\ mcp.call.arguments = [t |-> "object", valid |-> TRUE]
  /\ mcp.escaped = AuthRequired /\ mcp.invoked = {}

\* the request just answered was a well-formed tools/call for a tool the registry
\* has (the name is a string, the arguments an object)
AnsweredToolCall ==
  /\ mcp.phase = "responded"
  /\ mcp.body.t = "object" /\ mcp.body.jsonrpc = JsStr("2.0")
  /\ mcp.body.method = JsStr("tools/call")
  /\ mcp.body.params.t = "object" /\ mcp.body.params.name.t = "string"
  /\ mcp.body.params.arguments.t \in {"object", "array"}
  /\ toolAliases(mcp.body.params.name.s) \in ToolNames
CalledTool == toolRegistry[toolAliases(mcp.body.params.name.s)]
ReportsAuthRequired ==
  /\ mcp.escaped = NoExc
  /\ mcp.response.message = "AUTH_REQUIRED"
  /\ mcp.response.member = "error" \/ mcp.response.isError

\* C17: a tools/call for a tool declared auth: required, on a request that carries
\* no Bearer credential and no already-resolved user, never invokes the tool's
\* handler; the response reports AUTH_REQUIRED.
C17_NoCredentialNoHandler ==
  (/\ AnsweredToolCall
   /\ CalledTool.auth = "required"
   /\ ~(mcp.headers.present /\ mcp.headers.bearer)
   /\ mcp.user.userId = NULLS)
  => (mcp.invoked = {} /\ ReportsAuthRequired)

\* a JSON-RPC 2.0 response: the version, an id that is a string, a number or null,
\* and exactly one of result and error
IsEnvelope(r) ==
  /\ r.jsonrpc = "2.0"
  /\ r.id.t \in {"string", "number", "null"}
  /\ r.member \in {"result", "error"}
  /\ r.member = "error" => (r.code /= 0 /\ r.message /= "")

\* C18: for every payload, and for every way a tool call can fail (a handled error,
\* an authentication failure while the user is resolved, an unexpected exception in
\* a handler), the router returns a JSON-RPC 2.0 envelope; no exception leaves
\* handleJsonRpc for the transport layer.
C18_AlwaysAnEnvelope ==
  mcp.phase = "responded" => (mcp.escaped = NoExc /\ IsEnvelope(mcp.response))
C18_Witness ==
  /\ AnsweredToolCall
  /\ mcp.invoked /= {}
  /\ mcp.escaped = NoExc
  /\ mcp.response.member = "result" /\ mcp.response.isError
  /\ mcp.response.message = "INTERNAL_ERROR"

\* C19: for any payload, the response's id equals the request's id when that id is a
\* string, a number or null, and is null otherwise (an id of another type, no id, a
\* payload that is not an object); this holds for success responses, for tool
\* failures and for the -32600 response to an invalid envelope.
C19_IdEchoed ==
  mcp.phase = "responded" =>
    mcp.response.id =
      IF mcp.body.t \in {"object", "array"} /\ mcp.body.id.t \in {"string", "number", "null"}
        THEN mcp.body.id
        ELSE JsNull
C19_Witness ==
  /\ mcp.phase = "responded"
  /\ mcp.body.t = "object" /\ mcp.body.jsonrpc /= JsStr("2.0")
  /\ mcp.body.id = JsNum(7)
  /\ mcp.response.member = "error" /\ mcp.response.code = -32600
  /\ mcp.response.id = JsNum(7)

\* the payload is an object with jsonrpc "2.0" and a string method
ValidEnvelope ==
  /\ mcp.body.t = "object"
  /\ mcp.body.jsonrpc.t = "string" /\ mcp.body.jsonrpc.s = "2.0"
  /\ mcp.body.method.t = "string"
ErrorIs(code) == mcp.response.member = "error" /\ mcp.response.code = code
EmptyResult(collection) ==
  /\ mcp.response.member = "result" /\ ~mcp.response.isError
  /\ mcp.response.carries = collection /\ mcp.response.items = {}

\* C20: for any payload: if it is not an object with jsonrpc equal to "2.0" and a
\* string method, the response is error -32600 and no tool runs; if the envelope is
\* valid and the method is none of initialize, tools/list, resources/list,
\* prompts/list and tools/call, the response is error -32601; resources/list and
\* prompts/list answer with empty collections and no error.
C20_EnvelopeAndMethodRouting ==
  mcp.phase = "responded" =>
    /\ ~ValidEnvelope => (ErrorIs(-32600) /\ mcp.invoked = {})
    /\ (ValidEnvelope /\ mcp.body.method.s \notin
          {"initialize", "tools/list", "resources/list", "prompts/list", "tools/call"})
         => ErrorIs(-32601)
    /\ (ValidEnvelope /\ mcp.body.method.s = "resources/list") => EmptyResult("resources")
    /\ (ValidEnvelope /\ mcp.body.method.s = "prompts/list") => EmptyResult("prompts")
C20_Witness ==
  /\ mcp.phase = "responded"
  /\ ValidEnvelope /\ mcp.body.method.s = "ping"
  /\ ErrorIs(-32601) /\ mcp.response.message = "Method not found"

\* the exception the try block of the answered tools/call raised, if any
ToolFailed == AnsweredToolCall /\ mcp.raised /= NoExc
\* the taxonomy's name for a failure
KindOf(exc) ==
  IF exc.class = "McpHandledError" THEN exc.message
  ELSE IF exc.class = "UnauthorizedException" THEN "AUTH_REQUIRED"
  ELSE "INTERNAL_ERROR"
Taxonomy ==
  {"VALIDATION_ERROR", "NOT_FOUND", "DRAFT_INCOMPLETE", "AUTH_REQUIRED", "INTERNAL_ERROR"}

\* C21 as stated: a tools/call whose tool execution fails is answered with a response
\* that has an error member and no result member, naming the failure's kind.
C21_AsStated ==
  ToolFailed =>
    /\ mcp.response.member = "error"
    /\ mcp.response.message = KindOf(mcp.raised)

\* C21: a tools/call for a registered tool whose execution fails (validation,
\* not-found, draft-incomplete, auth-required or unexpected error) is answered with a
\* 2.0 envelope that has a result member marked isError and no error member, and
\* that names the failure's kind from the taxonomy.
C21_FailureIsAnErrorResult ==
  ToolFailed =>
    /\ mcp.escaped = NoExc
    /\ mcp.response.jsonrpc = "2.0"
    /\ mcp.response.member = "result" /\ mcp.response.isError
    /\ mcp.response.message = KindOf(mcp.raised)
    /\ mcp.response.message \in Taxonomy
C21_Witness ==
  /\ ToolFailed
  /\ mcp.raised.class = "McpHandledError" /\ mcp.raised.message = "DRAFT_INCOMPLETE"
  /\ mcp.response.member = "result" /\ mcp.response.isError
  /\ mcp.response.message = "DRAFT_INCOMPLETE"

\* ------------------------------------------------------------------- C22
\* the step on which a userTargets.recalculate call ends with the missing-fields error
MissingFieldsEnds ==
  /\ usr'.last /= usr.last
  /\ usr'.last.raised.class = "MissingFieldsError"
\* exc is a handled error of the taxonomy whose data names the fields
CarriesFields(exc, names) ==
  /\ exc.class = "McpHandledError"
  /\ "data" \in DOMAIN exc
  /\ exc.data = names

\* C22: when recalculateTargets raises the missing-fields error under the tool
\* userTargets.recalculate, what leaves the tool's handler is a handled error that
\* carries the missing field names, and the stored profile and targets are unchanged.
C22_MissingFieldsReraisedAsHandled ==
  [][MissingFieldsEnds =>
       /\ CarriesFields(usr'.last.escaped, usr'.last.raised.missingFields)
       /\ usr'.profile = usr.profile]_vars

\* ------------------------------------------------------------------- C23
\* kcal100 of product.createManual is a field whose schema type is number alone
Validated == calc.fn = "validateInput" /\ calc.phase = "done"
StringForNumber ==
  /\ Validated
  /\ calc.tool = "product.createManual"
  /\ calc.args.f["kcal100"].t = "string"
ParsesFinite(s) == NumberOf(s).t = "number" /\ ~IsInfinite(NumberOf(s))
ParsesNot(s) == NumberOf(s) = JsUndefined
ErrorsAt(path) == {i \in 1..Len(calc.out.fields) : calc.out.fields[i].path = path}
\* the string was replaced by its number and raised no field error
ReplacedAndAccepted ==
  /\ ErrorsAt(<<"kcal100">>) = {}
  /\ calc.out.value.f["kcal100"] = NumberOf(calc.args.f["kcal100"].s)
\* one field error for the field, got "string"; VALIDATION_ERROR; no handler
RejectedAsString ==
  /\ Cardinality(ErrorsAt(<<"kcal100">>)) = 1
  /\ \A i \in ErrorsAt(<<"kcal100">>) : calc.out.fields[i].got = "string"
  /\ calc.out.thrown
  /\ calc.out.exc = McpHandledError(-32000, "VALIDATION_ERROR")
  /\ calc.invoked = {}

\* C23 as stated: a non-empty string that parses as a finite number is replaced by
\* that number and accepted; a string that does not parse as a number adds exactly
\* one field error with the field's path and got "string", the call fails with
\* VALIDATION_ERROR and the handler is not invoked.
C23_AsStated ==
  StringForNumber =>
    LET s == calc.args.f["kcal100"].s
    IN /\ (s /= "" /\ ParsesFinite(s)) => ReplacedAndAccepted
       /\ ParsesNot(s) => RejectedAsString

\* C23: for a field whose schema type allows number and not string, a string with a
\* character other than white space that Number turns into a finite number is
\* replaced by that number and accepted; an empty or all-white-space string, and a
\* string that Number turns into NaN, adds exactly one field error with the field's
\* path and got "string", the call fails with VALIDATION_ERROR and the handler is
\* not invoked.
C23_StringForNumber ==
  StringForNumber =>
    LET s == calc.args.f["kcal100"].s
    IN /\ (Trim(s) /= "" /\ ParsesFinite(s)) => ReplacedAndAccepted
       /\ (Trim(s) = "" \/ ParsesNot(s)) => RejectedAsString
\* "abc" for kcal100, everything else valid: the one field error fails the call
C23_Witness ==
  /\ StringForNumber
  /\ calc.args.f["kcal100"] = JsStr("abc")
  /\ Len(calc.out.fields) = 1
  /\ RejectedAsString

\* ------------------------------------------------------------------- C24
Computed == calc.fn = "calculateNutritionTotals" /\ calc.phase = "done"
\* the unit table, units read without regard to case
UnitTable == {"g", "gram", "grams", "kg", "ml", "l"}
FactorOf(unit) == IF ToLower(unit) \in {"kg", "l"} THEN 1000 ELSE 1
\* the inline value if present, otherwise the linked product's value
MacroOf(ing, macro) == IF ing[macro] /= NULLN THEN ing[macro] ELSE ing.product[macro]
Counted(ing) ==
  /\ ing.amount /= NULLN
  /\ ing.unit /= NULLS
  /\ ToLower(ing.unit) \in UnitTable
  /\ \A macro \in {"kcal100", "protein100", "fat100", "carbs100"} :
       MacroOf(ing, macro) /= NULLN
\* 100 times the sum of amount x unit factor x per-100 value / 100 over the counted rows
RECURSIVE Hundredfold(_, _)
Hundredfold(ingSeq, macro) ==
  IF ingSeq = <<>> THEN 0
  ELSE (IF Counted(Head(ingSeq))
          THEN Head(ingSeq).amount * FactorOf(Head(ingSeq).unit) * MacroOf(Head(ingSeq), macro)
          ELSE 0)
       + Hundredfold(Tail(ingSeq), macro)
MacroName(field) ==
  CASE field = "calories" -> "kcal100" [] field = "protein" -> "protein100"
    [] field = "fat" -> "fat100" [] OTHER -> "carbs100"

\* C24: calculateNutritionTotals returns totals equal to the sum of amount x unit
\* factor x per-100 value / 100 over exactly the ingredients with an amount, a unit of
\* the table and macros available (inline first, then the product's); every other
\* ingredient contributes zero; perServing is total / max(servings, 1), null or zero
\* servings dividing by 1.
C24_TotalsAreTheSumOfCounted ==
  Computed =>
    \A field \in {"calories", "protein", "fat", "carbs"} :
      /\ calc.out.total[field] /= NaN
      /\ 100 * calc.out.total[field] = Hundredfold(calc.ingredients, MacroName(field))
      /\ calc.out.perServing[field] * Max(calc.servings, 1) = calc.out.total[field]
\* the same, over the lists in which no unit names an inherited member of the table
C24_WithoutInherited ==
  (Computed /\ \A i \in 1..Len(calc.ingredients) : calc.ingredients[i].unit /= "constructor")
    => C24_TotalsAreTheSumOfCounted

\* ------------------------------------------------------------------- C25
Targeted == calc.fn = "calculateTargets" /\ calc.phase = "done"
\* r = round(num / den), den > 0: r is the integer nearest to num / den, a half
\* going upwards
IsRound(r, num, den) == den * (2 * r - 1) <= 2 * num /\ 2 * num < den * (2 * r + 1)
\* BMR x activity factor, times 4000
Tdee4000(input) ==
  calculateBmrMifflin(input.sex, input.heightCm, input.weightKg, input.ageYears)
    * activityFactor(input.activityLevel)
\* the explicit calorieDelta whenever one is supplied, else the goal's default
DeltaAsClaimed(input) ==
  IF input.calorieDelta.given THEN input.calorieDelta.n
  ELSE CASE input.goal = "LOSE" -> -400 [] input.goal = "GAIN" -> 250 [] OTHER -> 0

\* C25: calculateTargets returns targetCalories = round(BMR x activity factor +
\* delta), delta being the explicit calorieDelta whenever one is supplied (0
\* included) and otherwise -400 for LOSE, +250 for GAIN and 0 for MAINTAIN; protein
\* = round(weight x 1.8) for GAIN, else round(weight x 1.6); fat = round(weight x
\* 0.8); carbs = max(0, round((targetCalories - 4 protein - 9 fat) / 4)), never
\* negative.
C25_TargetsFormula ==
  Targeted =>
    LET input == calc.input
        out == calc.out
        rest == out.targetCalories - 4 * out.targetProteinG - 9 * out.targetFatG
    IN /\ IsRound(out.targetCalories, Tdee4000(input) + 4000 * DeltaAsClaimed(input), 4000)
       /\ IsRound(out.targetProteinG,
                  input.weightKg * (IF input.goal = "GAIN" THEN 18 ELSE 16), 10)
       /\ IsRound(out.targetFatG, input.weightKg * 8, 10)
       /\ \/ out.targetCarbsG > 0 /\ IsRound(out.targetCarbsG, rest, 4)
          \/ out.targetCarbsG = 0 /\ 2 * rest < 4
       /\ out.targetCarbsG >= 0
\* an explicit delta of 0 under goal LOSE: the calories are round(TDEE), not
\* round(TDEE - 400)
C25_Witness ==
  /\ Targeted
  /\ calc.input.calorieDelta = Delta(0)
  /\ calc.input.goal = "LOSE"
  /\ calc.input.weightKg = 63
  /\ calc.input.heightCm = 168
  /\ IsRound(calc.out.targetCalories, Tdee4000(calc.input), 4000)
  /\ calc.out.targetCarbsG > 0
\* a delta of -3000 leaves nothing for carbohydrates: the target is clamped to 0
C25_WitnessClamped ==
  /\ Targeted
  /\ calc.input.calorieDelta = Delta(-3000)
  /\ calc.out.targetCalories - 4 * calc.out.targetProteinG - 9 * calc.out.targetFatG < -2
  /\ calc.out.targetCarbsG = 0

\* ------------------------------------------------------------------- C26
\* the step on which a call returns successfully and leaves no call under way
LastReturnsOk ==
  /\ usr'.last /= usr.last
  /\ usr'.last.ok
  /\ \A p \in Procs : usr'.proc[p].pc = "idle"
\* a step of caller p's upsertProfile whose upserted row lacks a required field
StepOfIncompleteUpsert(p) ==
  /\ usr.proc[p].op = "upsertProfile"
  /\ usr.proc[p].pc /= "idle"
  /\ usr'.proc[p] /= usr.proc[p]
  /\ getMissingFields(usr.proc[p].profile) /= {}

\* C26: when a successful upsertProfile or recalculateTargets has returned, no other
\* call being under way, and the stored profile has sex, birthDate, heightCm,
\* weightKg and activityLevel, the stored targets equal calculateTargets of the
\* stored profile (goal defaulting to MAINTAIN); an upsertProfile whose row lacks
\* one of them succeeds and leaves the stored targets as they were.
C26_TargetsMatchStoredProfile ==
  [][/\ (LastReturnsOk /\ getMissingFields(usr'.profile) = {})
          => TargetsOf(usr'.profile) = calculateTargets(TargetInput(usr'.profile))
     /\ \A p \in Procs :
          StepOfIncompleteUpsert(p)
            => /\ TargetsOf(usr'.profile) = TargetsOf(usr.profile)
               /\ usr'.proc[p].pc = "idle" => usr'.last.ok]_vars

\* ------------------------------------------------------------------- C27
\* the calls before call j that persisted a product of the same content
CreationsBefore(j) ==
  {i \in 1..(j - 1) :
     /\ shop.calls[i].persisted
     /\ createSignature(shop.calls[i].dto) = createSignature(shop.calls[j].dto)}
LatestOf(S) == CHOOSE i \in S : \A k \in S : k <= i
ProductsBefore(j) == {shop.calls[i].product : i \in 1..(j - 1)}
PersistsNew(j) ==
  /\ shop.calls[j].persisted
  /\ shop.calls[j].product \notin ProductsBefore(j)
  /\ \E pr \in shop.products : pr.id = shop.calls[j].product /\ pr.dto = shop.calls[j].dto

\* C27: a product.createManual call that starts less than 30 seconds after a call
\* with the same name, brand, kcal100, protein100, fat100 and carbs100 created and
\* returned a product persists nothing and returns that product; a call with
\* different content, or one made 30 seconds or more after the cached creation,
\* persists a new product.
C27_DuplicateWithin30s ==
  \A j \in 1..Len(shop.calls) :
    IF CreationsBefore(j) = {} THEN PersistsNew(j)
    ELSE LET first == shop.calls[LatestOf(CreationsBefore(j))]
         IN IF shop.calls[j].started - first.returned < 30000
              THEN ~shop.calls[j].persisted /\ shop.calls[j].product = first.product
              ELSE PersistsNew(j)
\* a repeat 29,999 ms after the creation returned is answered from the cache, and
\* the next, 30,000 ms after it, persists a second product
C27_Witness ==
  /\ Len(shop.calls) = 3
  /\ shop.calls[1].persisted
  /\ shop.calls[2].dto = shop.calls[1].dto
  /\ shop.calls[2].started - shop.calls[1].returned = 29999
  /\ ~shop.calls[2].persisted
  /\ shop.calls[2].product = shop.calls[1].product
  /\ shop.calls[3].dto = shop.calls[1].dto
  /\ shop.calls[3].started - shop.calls[1].returned = 30000
  /\ shop.calls[3].persisted
  /\ Cardinality(shop.products) = 2

\* ------------------------------------------------------------------- C28
\* the request just resolved carried the token that was issued for subject S at t0
ResolvedFor(S, t0) ==
  /\ oauth.phase = "resolved"
  /\ [token |-> oauth.last.token, subject |-> S, at |-> t0] \in oauth.issued
IsUserOf(id, externalId) == \E u \in oauth.users : u.id = id /\ u.externalId = externalId

C28_WitnessExpired ==
  /\ ResolvedFor("s1", 0)
  /\ oauth.last.at = 3600001
  /\ oauth.last.stored = NULLS
  /\ RecordsOf(oauth.tokens, "token-1") = {}

\* ------------------------------------------------------------------- C29
\* caller p is inside a recipeDraft.publish tool call
Publishing(p) == proc[p].pc /= "idle" /\ proc[p].op = "recipeDraft.publish"
RecipesFrom(d) == {r \in recipes : r.srcDraft = d}

\* C29: the clientRequestId given in the arguments of the tool recipeDraft.publish
\* reaches publishDraft as its idempotency key, and calls of the tool for one draft
\* create no second Recipe.
C29_ToolKeyReachesPublishDraft ==
  /\ \A p \in Procs : Publishing(p) => proc[p].key = toolArgs[p]
  /\ \A d \in DraftIds : Cardinality(RecipesFrom(d)) <= 1
\* no call of the tool ever has an idempotency key inside publishDraft
C29_NoKeyInsidePublishDraft ==
  /\ \A p \in Procs : proc[p].key = NULLS /\ proc[p].pc \notin {"pub.get", "pub.record"}
  /\ idem = {}
\* the second half of C29 alone: no draft is published into two Recipes
C29_OneRecipePerDraft == \A d \in DraftIds : Cardinality(RecipesFrom(d)) <= 1

\* ------------------------------------------------------------------- C30
\* the statement of a keyed mutation that looks for the draft (addIngredient,
\* setSteps) or for the ingredient (removeIngredient); a keyed call reaches it in
\* a step of its own, after the lookup of its key found no record
CheckPcs == {"add.find", "remove.delete", "steps.write"}
KeyedCheckRuns(p) ==
  /\ proc[p].pc \in CheckPcs /\ Truthy(proc[p].key)
  /\ proc'[p] /= proc[p]
\* what the call of q names is not there
NothingFound(q) ==
  IF q.op = OpRemove THEN ~IsIngredientOf(q.ingredientId, q.draftId)
  ELSE ~DraftExists(q.draftId)
\* this step ends p's keyed mutation with NOT_FOUND
KeyedCallFails(p) ==
  /\ proc[p].pc /= "idle" /\ proc[p].op \in DraftMutations /\ Truthy(proc[p].key)
  /\ proc'[p].pc = "idle"
  /\ last' = Returned(proc[p], ErrorResult("NOT_FOUND"), FALSE)
\* this step answers a keyed mutation from a record
MutationReplayed ==
  /\ ncalls' = ncalls + 1 /\ proc' = proc
  /\ last'.op \in DraftMutations /\ last'.replay

\* C30: a keyed addIngredient, removeIngredient or setSteps whose draft or
\* ingredient is not found ends with NOT_FOUND; the step that ends it writes no
\* idempotency record and changes no draft, ingredient or step.  A record of a
\* mutation is written only by the commit of a call that succeeded, under that
\* call's operation, key and draft, and a call is answered as a replay only from a
\* record of its own operation, key and draft: after a failure a call with the same
\* key runs as a fresh mutation unless another call recorded that key.
C30_FailedKeyedCallLeavesNoRecord ==
  [][ /\ \A p \in Procs : KeyedCheckRuns(p) /\ NothingFound(proc[p]) =>
           KeyedCallFails(p)
      /\ \A p \in Procs : KeyedCallFails(p) => StoreUnchanged
      /\ \A r \in idem' \ idem : r.operation \in DraftMutations =>
           \E p \in Procs :
             /\ KeyedCommit(p, r.operation)
             /\ r = IdemRow(proc[p], last'.result)
             /\ idem' = idem \cup {r}
      /\ MutationReplayed =>
           \E r \in RecordsFor(last'.op, last'.key, last'.draftId) :
             last'.result = r.result ]_vars

\* a keyed setSteps on a draft that does not exist has failed; the store holds a
\* draft with an ingredient and a step, and no record of the key
C30_Witness ==
  /\ last.op = OpSetSteps /\ last.key = "k1" /\ last.result.kind = "NOT_FOUND"
  /\ ~DraftExists(last.draftId)
  /\ RecordsFor(OpSetSteps, "k1", last.draftId) = {}
  /\ IngredientsOf(ings, 1) /= {} /\ StepsOf(steps, 1) /= {}
\* a keyed removeIngredient that named no ingredient of the draft has failed
C30_WitnessRemove ==
  /\ last.op = OpRemove /\ last.key = "k1" /\ last.result.kind = "NOT_FOUND"
  /\ DraftExists(last.draftId)
  /\ RecordsFor(OpRemove, "k1", last.draftId) = {}
\* a keyed addIngredient on a draft that does not exist has failed
C30_WitnessAdd ==
  /\ last.op = OpAdd /\ last.key = "k1" /\ last.result.kind = "NOT_FOUND"
  /\ ~DraftExists(last.draftId)
  /\ RecordsFor(OpAdd, "k1", last.draftId) = {}

====
